---- MODULE Spec2Model ----
(***************************************************************************)
(* Job queue, worker pool and library-linking coordination of the paper    *)
(* processing pipeline (api/services/jobs, api/worker.py,                  *)
(* api/services/link/queue.py).                                            *)
(*                                                                         *)
(* Time is a discrete clock `now`; every timestamp column is an integer    *)
(* reading of that clock and NULL stands for SQL null / Python None.       *)
(* The rows of the jobs table are the elements of the sequence `jobs`; a   *)
(* job's id is its index.                                                  *)
(***************************************************************************)
EXTENDS Integers, Sequences, FiniteSets, TLC

----------------------------------------------------------------------------
(* Bounds of the model *)
MaxTime == 3
MaxJobs == 2
NumWorkers == 2
MaxAttemptsBound == 2
BackoffCap == 1
StaleAfter == 1

NumPapers == 2
NumLibraries == 1
(* fraction digits of a timestamp *)
FracWidth == 2
(* links a model returns at most in one phase of a link_library run *)
MaxProposed == 2

(* JobQueue.create_job_by_type: default max_attempts *)
DEFAULT_MAX_ATTEMPTS == 3
(* JobQueue.has_recent_pending_link_job: default minutes *)
DEBOUNCE_MINUTES == 3

NULL == 0 - 1

Workers == 1 .. NumWorkers
Papers == 1 .. NumPapers
Libraries == 1 .. NumLibraries
(* The thread serving API requests calls the coordination code as well *)
ApiCaller == NumWorkers + 1
(* The coordination runs start here; the rows that exist by then are older *)
CoordStart == MaxTime - StaleAfter
(* link_library rows enqueued at most in a coordination run *)
MaxLinks == MaxJobs
(* A library outside the runs, and the worker of an earlier process *)
OtherLibrary == NumLibraries + 1
GoneWorker == 0
Callers == Workers \cup {ApiCaller}
Times == 0 .. MaxTime

Min(a, b) == IF a <= b THEN a ELSE b

(* models/job.py: JobStatus *)
JobStatus == {"pending", "running", "completed", "failed"}

(* models/job.py: JobType, with the kind the linking code uses *)
PARSE_PAPER == "parse_paper"
EXTRACT_ELEMENTS == "extract_elements"
LINK_LIBRARY == "link_library"

VARIABLES
    now,        \* the clock
    jobs,       \* the jobs table
    wk,         \* per worker: where its loop stands and the job row it holds
    ret,        \* what the most recent complete_job call returned
    library_papers, \* library_papers table: added_at of (library, paper), or NULL
    extracts,   \* extracts table
    co,         \* per caller: where its coordination call stands
    extract_links, \* extract_links table
    run,        \* per worker: where its run of the link_library handler stands
    log,        \* what the link_library handlers did and logged
    pool        \* the worker pool: serving, signalled, draining or terminated

linkVars == <<extract_links, run, log>>
storeVars == <<library_papers, extracts, co, linkVars>>
vars == <<now, jobs, wk, ret, library_papers, extracts, co, extract_links, run, log,
          pool>>

----------------------------------------------------------------------------
(* Job Store *)

(* JobQueue.create_job: insert with the table defaults *)
create_job(kind, paper, library, cutoff, max_attempts) ==
    [ kind |-> kind, paper |-> paper, library |-> library, cutoff |-> cutoff,
      status |-> "pending", attempts |-> 0, max_attempts |-> max_attempts,
      retry_after |-> NULL, claimed_by |-> NULL, claimed_at |-> NULL,
      created_at |-> now, finished_at |-> NULL, result |-> FALSE, error |-> FALSE ]

(* A row as the RPC returns it, with the columns the worker reads *)
Row(js, i) ==
    [id |-> i, kind |-> js[i].kind, paper |-> js[i].paper, library |-> js[i].library,
     cutoff |-> js[i].cutoff, attempts |-> js[i].attempts,
     max_attempts |-> js[i].max_attempts]
NoJob ==
    [id |-> NULL, kind |-> "none", paper |-> NULL, library |-> NULL, cutoff |-> NULL,
     attempts |-> 0, max_attempts |-> 0]

ClaimableAnyStatus(js, t) ==
    { i \in DOMAIN js : js[i].retry_after = NULL \/ js[i].retry_after <= t }

ClaimableIgnoringRetryAfter(js, t) ==
    { i \in DOMAIN js : js[i].status = "pending" }

(* claim RPC: the pending jobs whose retry_after is null or in the past *)
Claimable(js, t) ==
    { i \in DOMAIN js : /\ js[i].status = "pending"
                        /\ (js[i].retry_after = NULL \/ js[i].retry_after <= t) }

(* claim RPC: FIFO by created_at, ties broken arbitrarily *)
ClaimCandidates(js, t) ==
    { i \in Claimable(js, t) :
        \A k \in Claimable(js, t) : js[i].created_at <= js[k].created_at }

(* claim RPC: the update of the selected row *)
ClaimRowAtEpoch(js, i, w, t) ==
    [js EXCEPT ![i].status = "running", ![i].claimed_by = w,
               ![i].claimed_at = 0, ![i].attempts = @ + 1]

ClaimRow(js, i, w, t) ==
    [js EXCEPT ![i].status = "running", ![i].claimed_by = w,
               ![i].claimed_at = t, ![i].attempts = @ + 1]

claim_job_returns_none(data) == NoJob

(* JobQueue.claim_job: None when the RPC returned no row, else its first row *)
claim_job(data) == IF data = <<>> THEN NoJob ELSE data[1]

CompleteAcceptsAnyOwner(js, i, w) ==
    /\ i \in DOMAIN js
    /\ js[i].status = "running"

(* complete RPC: accepted iff the job is running and owned by the caller *)
CompleteAccepts(js, i, w) ==
    /\ i \in DOMAIN js
    /\ js[i].status = "running"
    /\ js[i].claimed_by = w

CompleteRowRetriesAtMax(js, i, status, t, b) ==
    IF status = "completed"
    THEN [js EXCEPT ![i].status = "completed", ![i].result = TRUE,
                    ![i].finished_at = t]
    ELSE IF js[i].attempts <= js[i].max_attempts
         THEN [js EXCEPT ![i].status = "pending", ![i].error = TRUE,
                         ![i].retry_after = t + b]
         ELSE [js EXCEPT ![i].status = "failed", ![i].error = TRUE,
                         ![i].finished_at = t]

CompleteRowStampsRetry(js, i, status, t, b) ==
    IF status = "completed"
    THEN [js EXCEPT ![i].status = "completed", ![i].result = TRUE,
                    ![i].finished_at = t]
    ELSE IF js[i].attempts < js[i].max_attempts
         THEN [js EXCEPT ![i].status = "pending", ![i].error = TRUE,
                         ![i].retry_after = t + b, ![i].finished_at = t]
         ELSE [js EXCEPT ![i].status = "failed", ![i].error = TRUE,
                         ![i].finished_at = t]

(* complete RPC: the update of an accepted call; b is the backoff drawn *)
CompleteRow(js, i, status, t, b) ==
    IF status = "completed"
    THEN [js EXCEPT ![i].status = "completed", ![i].result = TRUE,
                    ![i].finished_at = t]
    ELSE IF js[i].attempts < js[i].max_attempts
         THEN [js EXCEPT ![i].status = "pending", ![i].error = TRUE,
                         ![i].retry_after = t + b]
         ELSE [js EXCEPT ![i].status = "failed", ![i].error = TRUE,
                         ![i].finished_at = t]

complete_job_always_true(rpc_data) == TRUE

(* JobQueue.complete_job: True only when the RPC returned true *)
complete_job(rpc_data) == rpc_data = TRUE

StaleNever(js, t) == {}

(* stale-claim reclaim: running jobs claimed at least StaleAfter ago *)
Stale(js, t) ==
    { i \in DOMAIN js : js[i].status = "running" /\ js[i].claimed_at + StaleAfter <= t }

SweepRowResettingAttempts(js, i) ==
    [js EXCEPT ![i].status = "pending", ![i].attempts = 0]

SweepRow(js, i) == [js EXCEPT ![i].status = "pending"]

----------------------------------------------------------------------------
(* Timestamps as the store and Python print them. A timestamp counts the
   units of the last fraction digit; the fields above the fraction have a
   fixed width and are taken as one. Characters are numbered in their
   order: "+" 0, "." 1, the digit d as d + 2 *)

RECURSIVE Pow10(_)
Pow10(n) == IF n = 0 THEN 1 ELSE 10 * Pow10(n - 1)

FracBase == Pow10(FracWidth)

(* The fraction f as FracWidth digit characters *)
FracChars(f) == [k \in 1 .. FracWidth |-> ((f \div Pow10(FracWidth - k)) % 10) + 2]

RECURSIVE TrimZeros(_)
TrimZeros(ds) ==
    IF ds # <<>> /\ ds[Len(ds)] = 2 THEN TrimZeros(SubSeq(ds, 1, Len(ds) - 1))
    ELSE ds

(* The store prints a timestamptz: no fraction when it is zero, else the
   fraction without its trailing zeros; then the offset "+00:00" *)
db_timestamp(v) ==
    IF v % FracBase = 0 THEN <<v \div FracBase, 0>>
    ELSE <<v \div FracBase, 1>> \o TrimZeros(FracChars(v % FracBase)) \o <<0>>

(* datetime.isoformat: no fraction when microsecond is zero, else all its
   digits; then the offset *)
isoformat(v) ==
    IF v % FracBase = 0 THEN <<v \div FracBase, 0>>
    ELSE <<v \div FracBase, 1>> \o FracChars(v % FracBase) \o <<0>>

RECURSIVE FracValue(_, _)
FracValue(ds, k) ==
    IF ds = <<>> \/ ds[1] < 2 THEN 0
    ELSE (ds[1] - 2) * Pow10(FracWidth - k) + FracValue(Tail(ds), k + 1)

(* datetime.fromisoformat *)
fromisoformat(str) ==
    str[1] * FracBase + (IF str[2] = 1 THEN FracValue(SubSeq(str, 3, Len(str)), 1) ELSE 0)

(* Python's > on two strings *)
RECURSIVE StrGreater(_, _)
StrGreater(a, b) ==
    IF a = <<>> THEN FALSE
    ELSE IF b = <<>> THEN TRUE
    ELSE IF a[1] # b[1] THEN a[1] > b[1]
    ELSE StrGreater(Tail(a), Tail(b))

----------------------------------------------------------------------------
(* Coordination queries *)

(* library_papers rows of a library *)
PapersOf(lp, l) == { p \in Papers : lp[l, p] # NULL }

(* LibraryQueries.get_libraries_for_paper *)
get_libraries_for_paper(lp, p) == { l \in Libraries : lp[l, p] # NULL }

(* JobQueue.has_pending_processing_jobs_for_library *)
has_pending_processing_jobs_for_library(js, lp, l, exclude_job_id) ==
    \E p \in PapersOf(lp, l) : \E i \in DOMAIN js :
       /\ js[i].kind \in {PARSE_PAPER, EXTRACT_ELEMENTS}
       /\ js[i].status \in {"pending", "running"}
       /\ js[i].paper = p
       /\ (exclude_job_id # NULL => i # exclude_job_id)

has_recent_running_link_job(js, l, t) ==
    \E i \in DOMAIN js :
       /\ js[i].kind = LINK_LIBRARY
       /\ js[i].status = "running"
       /\ js[i].library = l
       /\ js[i].created_at >= t - DEBOUNCE_MINUTES

(* JobQueue.has_recent_pending_link_job *)
has_recent_pending_link_job(js, l, t) ==
    \E i \in DOMAIN js :
       /\ js[i].kind = LINK_LIBRARY
       /\ js[i].status = "pending"
       /\ js[i].library = l
       /\ js[i].created_at >= t - DEBOUNCE_MINUTES

get_previous_link_job_claimed_at_any_status(js, l) ==
    LET prev == { i \in DOMAIN js : /\ js[i].kind = LINK_LIBRARY
                                     /\ js[i].claimed_at # NULL
                                     /\ js[i].library = l }
    IN IF prev = {} THEN NULL
       ELSE LET top == CHOOSE i \in prev :
                         \A k \in prev : js[k].claimed_at <= js[i].claimed_at
            IN js[top].claimed_at

(* JobQueue.get_previous_link_job_claimed_at *)
get_previous_link_job_claimed_at(js, l) ==
    LET prev == { i \in DOMAIN js : /\ js[i].kind = LINK_LIBRARY
                                     /\ js[i].status \in {"completed", "running"}
                                     /\ js[i].library = l }
    IN IF prev = {} THEN NULL
       ELSE LET top == CHOOSE i \in prev :
                         \A k \in prev : js[k].claimed_at <= js[i].claimed_at
            IN fromisoformat(db_timestamp(js[top].claimed_at))

(* The newest job_id of a paper's extracts of one type (created_at desc, first row) *)
LatestJobId(ex, p, ty) ==
    LET mine == { e \in ex : e.paper = p /\ e.type = ty }
        top  == CHOOSE e \in mine : \A f \in mine : f.created_at <= e.created_at
    IN top.job_id

(* ExtractQueries.get_latest_by_paper *)
get_latest_by_paper(ex, p, ty) ==
    IF { e \in ex : e.paper = p /\ e.type = ty } = {} THEN {}
    ELSE { e \in ex : e.paper = p /\ e.type = ty /\ e.job_id = LatestJobId(ex, p, ty) }

(* ExtractQueries.get_all_extracts_by_library, one type of it *)
get_all_extracts_by_library(ex, lp, l, ty) ==
    UNION { get_latest_by_paper(ex, p, ty) : p \in PapersOf(lp, l) }

get_unlinked_claims_created_after(ex, lp, l, cutoff) ==
    IF PapersOf(lp, l) = {} THEN {}
    ELSE IF cutoff = NULL THEN get_all_extracts_by_library(ex, lp, l, "claim")
    ELSE UNION { { e \in get_latest_by_paper(ex, p, "claim") :
                     StrGreater(db_timestamp(e.created_at), isoformat(cutoff)) } :
                 p \in PapersOf(lp, l) }

(* ExtractQueries.get_unlinked_claims_for_library *)
get_unlinked_claims_for_library(ex, lp, l, cutoff) ==
    IF PapersOf(lp, l) = {} THEN {}
    ELSE IF cutoff = NULL THEN get_all_extracts_by_library(ex, lp, l, "claim")
    ELSE UNION { { e \in get_latest_by_paper(ex, p, "claim") :
                     \/ StrGreater(db_timestamp(e.created_at), isoformat(cutoff))
                     \/ StrGreater(db_timestamp(lp[l, p]), isoformat(cutoff)) } :
                 p \in PapersOf(lp, l) }

(* JobQueue.has_unlinked_extracts_for_library *)
has_unlinked_extracts_for_library(js, ex, lp, l) ==
    LET last_link_at == get_previous_link_job_claimed_at(js, l) IN
    IF last_link_at = NULL
    THEN /\ get_all_extracts_by_library(ex, lp, l, "claim") # {}
         /\ get_all_extracts_by_library(ex, lp, l, "observation") # {}
    ELSE get_unlinked_claims_for_library(ex, lp, l, last_link_at) # {}

(* JobQueue.should_queue_link_library *)
should_queue_link_library(js, ex, lp, l, t) ==
    IF has_pending_processing_jobs_for_library(js, lp, l, NULL) THEN FALSE
    ELSE IF has_recent_pending_link_job(js, l, t) THEN FALSE
    ELSE has_unlinked_extracts_for_library(js, ex, lp, l)

(* A caller that is not inside a coordination call *)
NoCall == [phase |-> "none", lib |-> NULL, rest |-> {}, cutoff |-> NULL]

(* A worker that is not inside the phases of handle_link_library *)
NoRun ==
    [phase |-> "none", inputs |-> {}, valid_claim_ids |-> {},
     valid_observation_ids |-> {}, found |-> {}]

----------------------------------------------------------------------------
(* Worker loop *)

IdleWorker == [state |-> "idle", job |-> NoJob]

RunningAlways(p) == TRUE

(* Worker._running: set when the loop starts, cleared by Worker.stop, which
   WorkerPool.start calls for every worker once the shutdown event is set *)
Running(p) == p \in {"serving", "signalled"}

(* Worker.run: while running, claim; with a job go on to process it, without
   one sleep *)
WorkerClaim(w) ==
    /\ wk[w].state = "idle"
    /\ Running(pool)
    /\ now + StaleAfter <= MaxTime
    /\ \/ /\ ClaimCandidates(jobs, now) = {}
          /\ LET got == claim_job(<<>>) IN
             wk' = [wk EXCEPT ![w] = [state |-> "sleeping", job |-> got]]
          /\ UNCHANGED jobs
       \/ \E i \in ClaimCandidates(jobs, now) :
            LET js  == ClaimRow(jobs, i, w, now)
                got == claim_job(<<Row(js, i)>>) IN
            /\ jobs' = js
            /\ wk' = [wk EXCEPT ![w] =
                        [state |-> IF got = NoJob THEN "sleeping" ELSE "handling",
                         job |-> got]]
    /\ UNCHANGED <<now, ret, storeVars, pool>>

(* Worker.run: the poll sleep is over *)
WorkerWake(w) ==
    /\ wk[w].state = "sleeping"
    /\ wk' = [wk EXCEPT ![w] = IdleWorker]
    /\ UNCHANGED <<now, jobs, ret, storeVars, pool>>

(* The complete_job call of a worker for the row it holds *)
CallComplete(w, status) ==
    LET i == wk[w].job.id IN
    \E b \in 0 .. BackoffCap :
      LET ok == CompleteAccepts(jobs, i, w) IN
      /\ jobs' = IF ok THEN CompleteRow(jobs, i, status, now, b) ELSE jobs
      /\ ret' = IF complete_job(ok) THEN "true" ELSE "false"

(* Worker._process_job: the handler of a parse_paper job returned (completed)
   or raised (failed); the handlers of the other types are further down *)
WorkerFinish(w) ==
    /\ wk[w].state = "handling"
    /\ wk[w].job.kind = PARSE_PAPER
    /\ \E status \in {"completed", "failed"} : CallComplete(w, status)
    /\ wk' = [wk EXCEPT ![w] = IdleWorker]
    /\ UNCHANGED <<now, storeVars, pool>>

(* The worker process dies in the middle of a job *)
WorkerCrash(w) ==
    /\ wk[w].state = "handling"
    /\ wk' = [wk EXCEPT ![w] = [state |-> "dead", job |-> NoJob]]
    /\ UNCHANGED <<now, jobs, ret, storeVars, pool>>

----------------------------------------------------------------------------
(* Environment *)

(* POST /api/jobs *)
Enqueue ==
    /\ Len(jobs) < MaxJobs
    /\ \E m \in 1 .. MaxAttemptsBound :
         jobs' = Append(jobs, create_job(PARSE_PAPER, NULL, NULL, NULL, m))
    /\ UNCHANGED <<now, wk, ret, storeVars, pool>>

(* stale-claim reclaim of one row *)
Sweep(i) ==
    /\ i \in Stale(jobs, now)
    /\ jobs' = SweepRow(jobs, i)
    /\ UNCHANGED <<now, wk, ret, storeVars, pool>>

Tick ==
    /\ now < MaxTime
    /\ now' = now + 1
    /\ UNCHANGED <<jobs, wk, ret, storeVars, pool>>

----------------------------------------------------------------------------
Init ==
    /\ now = 0
    /\ jobs = <<>>
    /\ wk = [w \in Workers |-> IdleWorker]
    /\ ret = "none"
    /\ library_papers = [l \in Libraries, p \in Papers |-> NULL]
    /\ extracts = {}
    /\ co = [c \in Callers |-> NoCall]
    /\ extract_links = {}
    /\ run = [w \in Workers |-> NoRun]
    /\ log = {}
    /\ pool = "serving"

Next ==
    \/ Enqueue
    \/ \E w \in Workers : WorkerClaim(w)
    \/ \E w \in Workers : WorkerWake(w)
    \/ \E w \in Workers : WorkerFinish(w)
    \/ \E w \in Workers : WorkerCrash(w)
    \/ \E i \in 1 .. MaxJobs : Sweep(i)
    \/ Tick

Spec == Init /\ [][Next]_vars

(* The clock advances and the reclaimer runs periodically *)
LiveSpec ==
    Spec /\ WF_vars(Tick) /\ \A i \in 1 .. MaxJobs : WF_vars(Sweep(i))

----------------------------------------------------------------------------
(* Coordination: when to enqueue link_library *)

(* The call turns to the next library of its loop, or is over *)
NextLibrary(c, rest) ==
    IF rest = {}
    THEN { IF c = ApiCaller THEN NoCall ELSE [NoCall EXCEPT !.phase = "done"] }
    ELSE { [phase |-> "check", lib |-> l, rest |-> rest \ {l},
            cutoff |-> NULL] : l \in rest }

(* maybe_queue_link_library*: check 1, check 2, and with both passed the
   cutoff is calculated *)
Check(c) ==
    /\ co[c].phase = "check"
    /\ IF \/ has_pending_processing_jobs_for_library(jobs, library_papers,
                                                     co[c].lib, NULL)
          \/ has_recent_pending_link_job(jobs, co[c].lib, now)
       THEN \E n \in NextLibrary(c, co[c].rest) : co' = [co EXCEPT ![c] = n]
       ELSE co' = [co EXCEPT ![c].phase = "insert",
                            ![c].cutoff =
                               get_previous_link_job_claimed_at(jobs, co[c].lib)]
    /\ UNCHANGED <<now, jobs, wk, ret, library_papers, extracts, linkVars, pool>>

(* maybe_queue_link_library*: queue the job *)
Insert(c) ==
    /\ co[c].phase = "insert"
    /\ Cardinality({ i \in DOMAIN jobs : /\ jobs[i].kind = LINK_LIBRARY
                                          /\ jobs[i].created_at >= CoordStart }) < MaxLinks
    /\ jobs' = Append(jobs, create_job(LINK_LIBRARY, NULL, co[c].lib,
                                       co[c].cutoff, DEFAULT_MAX_ATTEMPTS))
    /\ \E n \in NextLibrary(c, co[c].rest) : co' = [co EXCEPT ![c] = n]
    /\ UNCHANGED <<now, wk, ret, library_papers, extracts, linkVars, pool>>

(* Worker._process_job hands the handler the payload as it is stored, and no
   caller of create_job puts a job_id into it: payload.get("job_id") is None *)
PayloadJobId(job) == NULL

(* ExtractQueries.get_by_job_id *)
get_by_job_id(ex, job_id) == { e \in ex : e.job_id = job_id }

(* ExtractQueries.create_many of handle_extract_elements: one row per type.
   The store gives every row an id of its own; here it is made of the job,
   the attempt and the type that wrote the row *)
StoredExtracts(job, types, job_id, t) ==
    { [id |-> <<job.id, job.attempts, ty>>, paper |-> job.paper,
       type |-> ty, job_id |-> job_id, created_at |-> t] : ty \in types }

(* handle_extract_elements: its check for extracts of an earlier attempt *)
AlreadyExtracted(ex, job_id) == job_id # NULL /\ get_by_job_id(ex, job_id) # {}

(* handle_extract_elements run with job_id as its payload holds it: skipped
   when the check finds extracts; else the extractions run and their rows are
   stored, then maybe_queue_link_library is called and reads the libraries of
   the paper *)
ExtractWriteAs(w, job_id) ==
    /\ wk[w].state = "handling"
    /\ wk[w].job.kind = EXTRACT_ELEMENTS
    /\ IF AlreadyExtracted(extracts, job_id)
       THEN /\ extracts' = extracts
            /\ co' = [co EXCEPT ![w] = [NoCall EXCEPT !.phase = "done"]]
       ELSE /\ \E types \in SUBSET {"claim", "observation"} :
                 extracts' = extracts \cup
                    StoredExtracts(wk[w].job, types, job_id, now)
            /\ LET libs == get_libraries_for_paper(library_papers, wk[w].job.paper) IN
               \E n \in (IF libs = {} THEN { [NoCall EXCEPT !.phase = "done"] }
                          ELSE { [phase |-> "check", lib |-> l, rest |-> libs \ {l},
                                  cutoff |-> NULL] : l \in libs }) :
                 co' = [co EXCEPT ![w] = n]
    /\ wk' = [wk EXCEPT ![w].state = "coord"]
    /\ UNCHANGED <<now, jobs, ret, library_papers, linkVars, pool>>

(* handle_extract_elements as Worker._process_job calls it *)
ExtractWrite(w) == ExtractWriteAs(w, PayloadJobId(wk[w].job))

(* handle_extract_elements raises after some of its rows are stored:
   Worker._process_job marks the attempt failed *)
ExtractRaiseAs(w, job_id) ==
    /\ wk[w].state = "handling"
    /\ wk[w].job.kind = EXTRACT_ELEMENTS
    /\ ~AlreadyExtracted(extracts, job_id)
    /\ \E types \in SUBSET {"claim", "observation"} :
         extracts' = extracts \cup
            StoredExtracts(wk[w].job, types, job_id, now)
    /\ CallComplete(w, "failed")
    /\ wk' = [wk EXCEPT ![w] = IdleWorker]
    /\ UNCHANGED <<now, library_papers, co, linkVars, pool>>

ExtractRaise(w) == ExtractRaiseAs(w, PayloadJobId(wk[w].job))

(* handle_extract_elements returned: Worker._process_job completes the job *)
ExtractReturn(w) ==
    /\ wk[w].state = "coord"
    /\ co[w].phase = "done"
    /\ CallComplete(w, "completed")
    /\ wk' = [wk EXCEPT ![w] = IdleWorker]
    /\ co' = [co EXCEPT ![w] = NoCall]
    /\ UNCHANGED <<now, library_papers, extracts, linkVars, pool>>

(* handle_link_library returned: Worker._process_job completes the job *)
LinkReturn(w) ==
    /\ wk[w].state = "handling"
    /\ wk[w].job.kind = LINK_LIBRARY
    /\ run[w].phase = "none"
    /\ CallComplete(w, "completed")
    /\ wk' = [wk EXCEPT ![w] = IdleWorker]
    /\ UNCHANGED <<now, storeVars, pool>>

(* POST /api/jobs with an extract_elements job for a paper, once per paper *)
EnqueueExtract(p) ==
    /\ \A i \in DOMAIN jobs : ~(jobs[i].kind = EXTRACT_ELEMENTS /\ jobs[i].paper = p)
    /\ jobs' = Append(jobs, create_job(EXTRACT_ELEMENTS, p, NULL, NULL,
                                       DEFAULT_MAX_ATTEMPTS))
    /\ UNCHANGED <<now, wk, ret, storeVars, pool>>

(* POST /api/library: add_papers, then maybe_queue_link_library_for_library *)
ApiAddPapers(l, p) ==
    /\ co[ApiCaller] = NoCall
    /\ library_papers' = [library_papers EXCEPT ![l, p] =
                             IF @ = NULL THEN now ELSE @]
    /\ co' = [co EXCEPT ![ApiCaller] =
                 [phase |-> "check", lib |-> l, rest |-> {}, cutoff |-> NULL]]
    /\ UNCHANGED <<now, jobs, wk, ret, extracts, linkVars, pool>>

(* GET /api/library/{id}: the auto-trigger *)
ApiGetLibrary(l) ==
    /\ co[ApiCaller] = NoCall
    /\ should_queue_link_library(jobs, extracts, library_papers, l, now)
    /\ co' = [co EXCEPT ![ApiCaller] =
                 [phase |-> "check", lib |-> l, rest |-> {}, cutoff |-> NULL]]
    /\ UNCHANGED <<now, jobs, wk, ret, library_papers, extracts, linkVars, pool>>

(* A job that completed at its first attempt before the runs start *)
Done(kind, paper, library) ==
    [ create_job(kind, paper, library, NULL, DEFAULT_MAX_ATTEMPTS)
        EXCEPT !.created_at = 0, !.status = "completed", !.attempts = 1,
               !.claimed_by = 1, !.claimed_at = 0, !.finished_at = 0,
               !.result = TRUE ]

ParsedRows == [p \in Papers |-> Done(PARSE_PAPER, p, NULL)]

(* Every paper was uploaded and parsed before. The library is new and empty,
   or it got the papers while they were being parsed, or it holds the papers
   and was linked once *)
CoordInit ==
    /\ now = CoordStart
    /\ wk = [w \in Workers |-> IdleWorker]
    /\ ret = "none"
    /\ extracts = {}
    /\ co = [c \in Callers |-> NoCall]
    /\ extract_links = {}
    /\ run = [w \in Workers |-> NoRun]
    /\ log = {}
    /\ pool = "serving"
    /\ \/ /\ jobs = ParsedRows
          /\ library_papers = [l \in Libraries, p \in Papers |-> NULL]
       \/ /\ jobs = ParsedRows
          /\ library_papers = [l \in Libraries, p \in Papers |->
                                 IF l = 1 THEN 0 ELSE NULL]
       \/ /\ jobs = Append(ParsedRows, Done(LINK_LIBRARY, NULL, 1))
          /\ library_papers = [l \in Libraries, p \in Papers |->
                                 IF l = 1 THEN 0 ELSE NULL]

CoordNext ==
    \/ \E p \in Papers : EnqueueExtract(p)
    \/ \E l \in Libraries, p \in Papers : ApiAddPapers(l, p)
    \/ \E l \in Libraries : ApiGetLibrary(l)
    \/ \E c \in Callers : Check(c)
    \/ \E c \in Callers : Insert(c)
    \/ \E w \in Workers : WorkerClaim(w)
    \/ \E w \in Workers : WorkerWake(w)
    \/ \E w \in Workers : LinkReturn(w)
    \/ \E w \in Workers : ExtractWrite(w)
    \/ \E w \in Workers : ExtractReturn(w)

CoordSpec == CoordInit /\ [][CoordNext]_vars

----------------------------------------------------------------------------
(* Cutoff: link_library jobs enqueued into a table that holds earlier ones *)

(* handle_link_library raised: Worker._process_job fails the job *)
LinkRaise(w) ==
    /\ wk[w].state = "handling"
    /\ wk[w].job.kind = LINK_LIBRARY
    /\ run[w].phase = "none"
    /\ CallComplete(w, "failed")
    /\ wk' = [wk EXCEPT ![w] = IdleWorker]
    /\ UNCHANGED <<now, storeVars, pool>>

(* link_library rows of earlier runs *)
EarlierLink ==
    { [Done(LINK_LIBRARY, NULL, 1) EXCEPT !.claimed_at = c, !.finished_at = c] :
        c \in 0 .. 1 }
    \cup
    { [Done(LINK_LIBRARY, NULL, 1)
         EXCEPT !.status = "running", !.claimed_by = GoneWorker, !.claimed_at = 1,
                !.finished_at = NULL, !.result = FALSE],
      [Done(LINK_LIBRARY, NULL, 1)
         EXCEPT !.status = "failed", !.attempts = DEFAULT_MAX_ATTEMPTS,
                !.claimed_at = 1, !.finished_at = 1, !.result = FALSE,
                !.error = TRUE],
      [Done(LINK_LIBRARY, NULL, OtherLibrary)
         EXCEPT !.claimed_at = 1, !.finished_at = 1] }

CutoffInit ==
    /\ now = CoordStart
    /\ \E n \in 0 .. MaxJobs : jobs \in [1 .. n -> EarlierLink]
    /\ wk = [w \in Workers |-> IdleWorker]
    /\ ret = "none"
    /\ library_papers = [l \in Libraries, p \in Papers |-> 0]
    /\ extracts = {}
    /\ co = [c \in Callers |-> NoCall]
    /\ extract_links = {}
    /\ run = [w \in Workers |-> NoRun]
    /\ log = {}
    /\ pool = "serving"

CutoffNext ==
    \/ \E l \in Libraries, p \in Papers : ApiAddPapers(l, p)
    \/ Check(ApiCaller)
    \/ Insert(ApiCaller)
    \/ \E w \in Workers : WorkerClaim(w)
    \/ \E w \in Workers : WorkerWake(w)
    \/ \E w \in Workers : LinkReturn(w)
    \/ \E w \in Workers : LinkRaise(w)
    \/ Tick

CutoffSpec == CutoffInit /\ [][CutoffNext]_vars

----------------------------------------------------------------------------
(* Unlinked claims of a library that was linked before *)

(* Timestamps whose printed forms differ in length: without a fraction, with
   a fraction that ends in zeros, with a full fraction *)
Stamps ==
    { 0, 1, Pow10(FracWidth - 1), Pow10(FracWidth - 1) + 1,
      FracBase, FracBase + Pow10(FracWidth - 1) }

(* The calls are made after all of them *)
UnlinkedStart == FracBase + Pow10(FracWidth - 1) + 1

(* Library 1 was linked once, by a job claimed at some timestamp. Paper 1 is
   in it, paper 2 is not; each paper was extracted once and has one claim *)
UnlinkedInit ==
    /\ now = UnlinkedStart
    /\ \E c \in Stamps :
         jobs = << [Done(LINK_LIBRARY, NULL, 1)
                      EXCEPT !.claimed_at = c, !.finished_at = c] >>
    /\ wk = [w \in Workers |-> IdleWorker]
    /\ ret = "none"
    /\ \E a \in Stamps :
         library_papers = [l \in Libraries, p \in Papers |->
                             IF l = 1 /\ p = 1 THEN a ELSE NULL]
    /\ \E t \in [Papers -> Stamps] :
         extracts = { [id |-> <<p, 1, "claim">>, paper |-> p, type |-> "claim",
                       job_id |-> NULL,
                       created_at |-> t[p]] : p \in Papers }
    /\ co = [c \in Callers |-> NoCall]
    /\ extract_links = {}
    /\ run = [w \in Workers |-> NoRun]
    /\ log = {}
    /\ pool = "serving"

UnlinkedNext ==
    \/ \E l \in Libraries, p \in Papers : ApiAddPapers(l, p)
    \/ \E l \in Libraries : ApiGetLibrary(l)
    \/ Check(ApiCaller)
    \/ Insert(ApiCaller)

UnlinkedSpec == UnlinkedInit /\ [][UnlinkedNext]_vars

----------------------------------------------------------------------------
(* Extraction jobs with failing attempts *)

ExtractInit ==
    /\ now = 0
    /\ jobs = << >>
    /\ wk = [w \in Workers |-> IdleWorker]
    /\ ret = "none"
    /\ library_papers = [l \in Libraries, p \in Papers |-> NULL]
    /\ extracts = {}
    /\ co = [c \in Callers |-> NoCall]
    /\ extract_links = {}
    /\ run = [w \in Workers |-> NoRun]
    /\ log = {}
    /\ pool = "serving"

(* One paper is extracted *)
ExtractNext ==
    \/ EnqueueExtract(1)
    \/ \E w \in Workers : \/ WorkerClaim(w)
                           \/ WorkerWake(w)
                           \/ ExtractWrite(w)
                           \/ ExtractRaise(w)
                           \/ ExtractReturn(w)
    \/ Tick

ExtractSpec == ExtractInit /\ [][ExtractNext]_vars

----------------------------------------------------------------------------
(* The link_library handler *)

(* An id that is no UUID, as a model may return it *)
JunkId == <<0, 0, "junk">>

(* _is_valid_uuid: the UUID pattern matches *)
is_valid_uuid(x) == x[3] # "junk"

Ids(rows) == { e.id : e \in rows }

(* ExtractLinkQueries.create_many with plain inserts *)
InsertAll(table, records, job) ==
    { table \cup { [from_id |-> r.from_id,
                    to_id |-> r.to_id, content |-> r.content] : r \in records } }

(* ExtractLinkQueries.create_many: upsert on (from_id, to_id) that ignores
   duplicates. A pair that has a row keeps it; of the records of a new pair
   the one that comes first in the batch becomes the row. The tables that
   can result, one per order of the batch *)
create_many(table, records, job) ==
    LET fresh == { r \in records :
                     ~\E x \in table : x.from_id = r.from_id /\ x.to_id = r.to_id }
        pairs == { <<r.from_id, r.to_id>> : r \in fresh }
        firsts == { f \in [pairs -> fresh] :
                      \A pr \in pairs : <<f[pr].from_id, f[pr].to_id>> = pr }
    IN { table \cup { [from_id |-> f[pr].from_id,
                       to_id |-> f[pr].to_id, content |-> f[pr].content] :
                      pr \in pairs } : f \in firsts }

(* _save_c2c_links: the records that pass the checks *)
c2c_records(links, valid_claim_ids) ==
    { [from_id |-> k.claim_id_1, to_id |-> k.claim_id_2,
       content |-> [link_type |-> k.link_type, link_category |-> "claim_to_claim"]] :
      k \in { k \in links : /\ is_valid_uuid(k.claim_id_1)
                            /\ is_valid_uuid(k.claim_id_2)
                            /\ k.claim_id_1 \in valid_claim_ids
                            /\ k.claim_id_2 \in valid_claim_ids } }

c2o_passes_unchecked(k, valid_claim_ids, valid_observation_ids) ==
    is_valid_uuid(k.claim_id) /\ is_valid_uuid(k.observation_id)

(* _save_c2o_links: the checks of one link *)
c2o_passes(k, valid_claim_ids, valid_observation_ids) ==
    /\ is_valid_uuid(k.claim_id)
    /\ is_valid_uuid(k.observation_id)
    /\ k.claim_id \in valid_claim_ids
    /\ k.observation_id \in valid_observation_ids

(* _save_c2o_links: the records that pass the checks *)
c2o_records(links, valid_claim_ids, valid_observation_ids) ==
    { [from_id |-> k.claim_id, to_id |-> k.observation_id,
       content |-> [link_type |-> k.link_type,
                    link_category |-> "claim_to_observation"]] :
      k \in { k \in links : c2o_passes(k, valid_claim_ids, valid_observation_ids) } }

(* What a pairwise classification can make of the candidate pairs: nothing,
   a premise in either direction, or a symmetric link *)
PairwiseLinks(pairs) ==
    UNION { { [claim_id_1 |-> pr[1], claim_id_2 |-> pr[2], link_type |-> "premise"],
              [claim_id_1 |-> pr[2], claim_id_2 |-> pr[1], link_type |-> "premise"],
              [claim_id_1 |-> pr[1], claim_id_2 |-> pr[2], link_type |-> "variant"] } :
            pr \in pairs }

(* A well-formed UUID that is the id of no extract *)
StrayId == <<0, 0, "claim">>

(* What the evidence linker can return for the library: links between a
   claim and an observation of it, and links with one endpoint that is no
   UUID or the id of no extract *)
EvidenceLinks(claim_ids, observation_ids) ==
    { [claim_id |-> c, observation_id |-> o, link_type |-> "supports"] :
        c \in claim_ids, o \in observation_ids \cup {StrayId, JunkId} }
    \cup
    { [claim_id |-> c, observation_id |-> o, link_type |-> "supports"] :
        c \in {StrayId, JunkId}, o \in observation_ids }

(* The lists of at most MaxProposed links out of a set, as sets *)
Proposals(S) ==
    { {} } \cup { { f[i] : i \in 1 .. MaxProposed } : f \in [1 .. MaxProposed -> S] }

(* The log entries of one attempt *)
Entries(job, event, what) ==
    { [job |-> job.id, attempt |-> job.attempts, event |-> event, what |-> x] :
      x \in what }

(* The order of two ids, as the order of the UUID strings *)
TypeRank(ty) ==
    CASE ty = "claim" -> 1 [] ty = "method" -> 2 [] ty = "observation" -> 3
      [] OTHER -> 0

IdLess(a, b) ==
    \/ a[1] < b[1]
    \/ a[1] = b[1] /\ a[2] < b[2]
    \/ a[1] = b[1] /\ a[2] = b[2] /\ TypeRank(a[3]) < TypeRank(b[3])

pair_key_as_met(a, b) == <<a, b>>

(* build_candidate_pairs: tuple(sorted([input_claim["id"], lib_claim["id"]])) *)
pair_key(a, b) == IF IdLess(b, a) THEN <<b, a>> ELSE <<a, b>>

(* Embeddings are directions; two claims of one direction have cosine
   similarity 1, neighbours are at the threshold, the others below it. The
   levels 0, 1, 2 stand for below, at and above the threshold *)
Directions == 1 .. 3
THRESHOLD == 1

(* _asymmetric_cosine_similarity: the entry of two claims *)
cosine_similarity(d1, d2) ==
    IF d1 = d2 THEN 2 ELSE IF d1 - d2 \in {-1, 1} THEN 1 ELSE 0

(* build_candidate_pairs: pairs and seen after the first k passes of the
   inner loop, over input_claims x library_claims row by row *)
RECURSIVE CollectPairs(_, _, _, _, _)
CollectPairs(input_claims, library_claims, embedding, threshold, k) ==
    IF k = 0 THEN [pairs |-> << >>, seen |-> {}]
    ELSE LET before == CollectPairs(input_claims, library_claims, embedding,
                                    threshold, k - 1)
             input_claim == input_claims[((k - 1) \div Len(library_claims)) + 1]
             lib_claim == library_claims[((k - 1) % Len(library_claims)) + 1]
             sim == cosine_similarity(embedding[input_claim], embedding[lib_claim])
         IN IF input_claim = lib_claim THEN before
            ELSE IF sim < threshold THEN before
            ELSE IF pair_key(input_claim, lib_claim) \in before.seen THEN before
            ELSE [pairs |-> Append(before.pairs, <<input_claim, lib_claim>>),
                  seen |-> before.seen \cup {pair_key(input_claim, lib_claim)}]

(* build_candidate_pairs over the ids of the claims and their embeddings *)
build_candidate_pairs(input_claims, library_claims, embedding, threshold) ==
    IF input_claims = << >> \/ library_claims = << >> THEN << >>
    ELSE CollectPairs(input_claims, library_claims, embedding, threshold,
                      Len(input_claims) * Len(library_claims)).pairs

(* The orders in which a query can return the rows of S *)
Orders(S) ==
    { s \in [1 .. Cardinality(S) -> S] :
        \A i, j \in 1 .. Cardinality(S) : i # j => s[i] # s[j] }

Elements(s) == { s[i] : i \in 1 .. Len(s) }

(* link_claims_pairwise up to the calls: the candidate pairs of the input
   claims, for every order of the fetched rows. The claims of the library are
   taken to be similar to each other; a pair below the threshold leaves what
   a call that returns "none" leaves *)
CandidatePairs(inputs, library_claims) ==
    IF Cardinality(library_claims) < 2 THEN { {} }
    ELSE { Elements(build_candidate_pairs(I, C, [c \in library_claims \cup inputs |-> 1],
                                          THRESHOLD)) :
           I \in Orders(inputs), C \in Orders(library_claims) }

(* handle_link_library, steps 1 to 2b: the unlinked claims are fetched, with
   none the handler returns; else the valid ids are loaded *)
LinkFetch(w) ==
    /\ wk[w].state = "handling"
    /\ wk[w].job.kind = LINK_LIBRARY
    /\ run[w].phase = "none"
    /\ LET job == wk[w].job
           cutoff == IF job.cutoff = NULL THEN NULL
                     ELSE fromisoformat(isoformat(job.cutoff))
           unlinked_claims ==
               get_unlinked_claims_for_library(extracts, library_papers,
                                               job.library, cutoff)
       IN IF unlinked_claims = {}
          THEN /\ CallComplete(w, "completed")
               /\ wk' = [wk EXCEPT ![w] = IdleWorker]
               /\ UNCHANGED run
          ELSE /\ run' = [run EXCEPT ![w] =
                            [phase |-> "c2c", inputs |-> Ids(unlinked_claims),
                             valid_claim_ids |->
                                Ids(get_all_extracts_by_library(extracts,
                                       library_papers, job.library, "claim")),
                             valid_observation_ids |->
                                Ids(get_all_extracts_by_library(extracts,
                                       library_papers, job.library, "observation")),
                             found |-> {}]]
               /\ UNCHANGED <<jobs, ret, wk>>
    /\ UNCHANGED <<now, library_papers, extracts, co, extract_links, log, pool>>

(* A warning or a count of the handler's log that is kept once *)
Flag(event) == [job |-> 0, attempt |-> 0, event |-> event, what |-> JunkId]

(* "Saved n links" with n below the number of records: duplicates were ignored *)
Ignored(table, saved, records) ==
    IF Cardinality(saved \ table) < Cardinality(records)
    THEN {Flag("ignored")} ELSE {}

(* handle_link_library, step 3: link_claims_pairwise over the input claims
   and the claims of the library, and _save_c2c_links *)
LinkC2C(w) ==
    /\ wk[w].state = "handling"
    /\ run[w].phase = "c2c"
    /\ LET job == wk[w].job
           library_claims == Ids(get_all_extracts_by_library(extracts,
                                    library_papers, job.library, "claim"))
       IN \E pairs \in CandidatePairs(run[w].inputs, library_claims) :
          \E links \in Proposals(PairwiseLinks(pairs)) :
            LET records == c2c_records(links, run[w].valid_claim_ids) IN
            /\ extract_links' \in create_many(extract_links, records, job)
            /\ log' = log \cup Entries(job, "c2c", run[w].inputs)
                          \cup Ignored(extract_links, extract_links', records)
    /\ run' = [run EXCEPT ![w].phase = "c2o"]
    /\ UNCHANGED <<now, jobs, wk, ret, library_papers, extracts, co, pool>>

(* handle_link_library, step 4: link_observations_to_input_claims returns
   the links the model proposed *)
LinkC2O(w) ==
    /\ wk[w].state = "handling"
    /\ run[w].phase = "c2o"
    /\ LET job == wk[w].job
           observations == Ids(get_all_extracts_by_library(extracts,
                                  library_papers, job.library, "observation"))
           claims == Ids(get_all_extracts_by_library(extracts,
                            library_papers, job.library, "claim"))
       IN \E links \in Proposals(IF observations = {} THEN {}
                                  ELSE EvidenceLinks(claims, observations)) :
            run' = [run EXCEPT ![w].phase = "save", ![w].found = links]
    /\ UNCHANGED <<now, jobs, wk, ret, library_papers, extracts, co,
                   extract_links, log, pool>>

(* handle_link_library, step 5: _save_c2o_links, and the handler returns *)
LinkSave(w) ==
    /\ wk[w].state = "handling"
    /\ run[w].phase = "save"
    /\ LET records == c2o_records(run[w].found, run[w].valid_claim_ids,
                                  run[w].valid_observation_ids) IN
       /\ extract_links' \in create_many(extract_links, records, wk[w].job)
       /\ log' = log \cup Entries(wk[w].job, "c2o", run[w].inputs)
                     \cup Ignored(extract_links, extract_links', records)
                     \cup (IF Cardinality(records) < Cardinality(run[w].found)
                           THEN {Flag("skipped")} ELSE {})
    /\ CallComplete(w, "completed")
    /\ wk' = [wk EXCEPT ![w] = IdleWorker]
    /\ run' = [run EXCEPT ![w] = NoRun]
    /\ UNCHANGED <<now, library_papers, extracts, co, pool>>

(* handle_link_library raises between its steps (a store or network error):
   Worker._process_job fails the attempt *)
LinkFail(w) ==
    /\ wk[w].state = "handling"
    /\ run[w].phase \in {"c2c", "c2o", "save"}
    /\ CallComplete(w, "failed")
    /\ wk' = [wk EXCEPT ![w] = IdleWorker]
    /\ run' = [run EXCEPT ![w] = NoRun]
    /\ UNCHANGED <<now, library_papers, extracts, co, extract_links, log, pool>>

(* A paper's extracts of one extraction run, stored before the runs start *)
Extracted(p, types) ==
    { [id |-> <<p, 1, ty>>, paper |-> p, type |-> ty, job_id |-> NULL,
       created_at |-> 0] : ty \in types }

(* A never linked library holds the papers, extracted with a claim each and
   an observation of the first; link_library jobs for it are pending, the
   first of them with retries *)
LinkInit ==
    /\ now = 0
    /\ \E n \in 1 .. MaxJobs :
         jobs = [i \in 1 .. n |->
                   create_job(LINK_LIBRARY, NULL, 1, NULL,
                              IF i = 1 THEN MaxAttemptsBound ELSE 1)]
    /\ wk = [w \in Workers |-> IdleWorker]
    /\ ret = "none"
    /\ library_papers = [l \in Libraries, p \in Papers |-> 0]
    /\ extracts = UNION { Extracted(p, IF p = 1 THEN {"claim", "observation"}
                                       ELSE {"claim"}) : p \in Papers }
    /\ co = [c \in Callers |-> NoCall]
    /\ extract_links = {}
    /\ run = [w \in Workers |-> NoRun]
    /\ log = {}
    /\ pool = "serving"

LinkNext ==
    \/ \E w \in Workers : \/ WorkerClaim(w)
                           \/ WorkerWake(w)
                           \/ LinkFetch(w)
                           \/ LinkC2C(w)
                           \/ LinkC2O(w)
                           \/ LinkSave(w)
                           \/ LinkFail(w)

LinkSpec == LinkInit /\ [][LinkNext]_vars

----------------------------------------------------------------------------
(* A paper that is extracted again *)

(* The library holds the parsed papers; two extract_elements jobs for the
   first paper are pending, each with one attempt *)
LatestInit ==
    /\ now = 0
    /\ jobs = ParsedRows \o
                [i \in 1 .. MaxJobs |->
                   create_job(EXTRACT_ELEMENTS, 1, NULL, NULL, 1)]
    /\ wk = [w \in Workers |-> IdleWorker]
    /\ ret = "none"
    /\ library_papers = [l \in Libraries, p \in Papers |-> 0]
    /\ extracts = {}
    /\ co = [c \in Callers |-> NoCall]
    /\ extract_links = {}
    /\ run = [w \in Workers |-> NoRun]
    /\ log = {}
    /\ pool = "serving"

LatestNext ==
    \/ \E l \in Libraries : ApiGetLibrary(l)
    \/ \E c \in Callers : Check(c) \/ Insert(c)
    \/ \E w \in Workers : \/ WorkerClaim(w)
                           \/ WorkerWake(w)
                           \/ ExtractWrite(w)
                           \/ ExtractReturn(w)
                           \/ LinkReturn(w)
    \/ Tick

LatestSpec == LatestInit /\ [][LatestNext]_vars

----------------------------------------------------------------------------
(* K concurrent claim_job calls against a pool of jobs *)

PoolJob ==
    { [ create_job(PARSE_PAPER, NULL, NULL, NULL, MaxAttemptsBound)
          EXCEPT !.created_at = c ] : c \in 0 .. 1 }
    \cup
    { [ create_job(PARSE_PAPER, NULL, NULL, NULL, MaxAttemptsBound)
          EXCEPT !.created_at = 0, !.attempts = 1, !.claimed_by = 1,
                 !.claimed_at = 0, !.error = TRUE, !.retry_after = r ] :
        r \in 0 .. 2 }
    \cup
    { [ create_job(PARSE_PAPER, NULL, NULL, NULL, MaxAttemptsBound)
          EXCEPT !.created_at = 0, !.attempts = 1, !.claimed_by = 1,
                 !.claimed_at = 0, !.status = "completed", !.result = TRUE,
                 !.finished_at = 1 ] }

PoolsOfLen(n) == [1 .. n -> PoolJob]

ClaimInit ==
    /\ now = 1
    /\ \E n \in 0 .. MaxJobs : jobs \in PoolsOfLen(n)
    /\ wk \in [Workers -> {IdleWorker, [state |-> "dead", job |-> NoJob]}]
    /\ ret = "none"
    /\ library_papers = [l \in Libraries, p \in Papers |-> NULL]
    /\ extracts = {}
    /\ co = [c \in Callers |-> NoCall]
    /\ extract_links = {}
    /\ run = [w \in Workers |-> NoRun]
    /\ log = {}
    /\ pool = "serving"

ClaimNext == \E w \in Workers : WorkerClaim(w)

ClaimSpec == ClaimInit /\ [][ClaimNext]_vars

----------------------------------------------------------------------------
(* Properties *)

Terminal == {"completed", "failed"}
Holding == { w \in Workers : wk[w].state = "handling" }
Returned == { wk[w].job.id : w \in Holding }
ClaimCallers == { w \in Workers : wk[w].state \in {"handling", "sleeping"} }
RunningJobs == { i \in DOMAIN jobs : jobs[i].status = "running" }

(* A step in which worker w calls claim_job and gets a job *)
ClaimStep(w) == wk[w].state = "idle" /\ wk'[w].state = "handling"
(* A step in which worker w calls complete_job *)
CompleteStep(w) == wk[w].state = "handling" /\ wk'[w].state = "idle"

(* C1: of K claim_job calls against a pool holding M claimable pending jobs,
   in any order, no two return the same job and exactly min(K, M) return a
   job: after c of the calls, min(c, M) distinct jobs have been returned. *)
C1_AtMostOneClaim ==
    /\ \A w1, w2 \in Holding : w1 # w2 => wk[w1].job.id # wk[w2].job.id
    /\ Cardinality(Returned) =
         Min(Cardinality(ClaimCallers),
             Cardinality(Claimable(jobs, now)) + Cardinality(RunningJobs))

C1_Witness ==
    /\ Cardinality(Returned) >= 2
    /\ Claimable(jobs, now) = {}
    /\ \A w \in Workers : wk[w].state # "idle"

(* C2: complete_job succeeds exactly when the job is running and claimed by
   the calling worker; a successful call changes that row and a rejected
   call (wrong owner, pending job, terminal job) is reported as false. *)
C2_OwnershipOnComplete ==
    [][ \A w \in Workers : CompleteStep(w) =>
          LET i == wk[w].job.id IN
          (ret' = "true") <=> (jobs[i].status = "running" /\ jobs[i].claimed_by = w)
      ]_vars

C2_Witness ==
    /\ ret = "false"
    /\ \E i \in DOMAIN jobs : jobs[i].status = "completed"
    /\ \E i \in DOMAIN jobs : jobs[i].status = "running"

(* C3: a job whose status is completed or failed keeps that status in every
   later step. *)
C3_Terminality ==
    [][ \A i \in DOMAIN jobs :
          jobs[i].status \in Terminal => jobs'[i].status = jobs[i].status ]_vars

C3_Witness ==
    /\ \E i \in DOMAIN jobs : jobs[i].status = "completed" /\ jobs[i].finished_at < now
    /\ \E i \in DOMAIN jobs : jobs[i].status = "failed" /\ jobs[i].finished_at < now

(* C4: an accepted complete_job(failed) returns the job to pending with
   retry_after set and finished_at unset when attempts < max_attempts, and
   makes it failed with finished_at set when attempts has reached
   max_attempts; so failure never sends a job back for another attempt once
   attempts >= max_attempts. *)
C4_FailedRetryOrTerminal ==
    [][ \A w \in Workers :
          LET i == wk[w].job.id IN
          (CompleteStep(w) /\ ret' = "true" /\ jobs'[i].status # "completed") =>
             IF jobs[i].attempts < jobs[i].max_attempts
             THEN /\ jobs'[i].status = "pending"
                  /\ jobs'[i].retry_after # NULL
                  /\ jobs'[i].retry_after >= now
                  /\ jobs'[i].finished_at = NULL
             ELSE /\ jobs'[i].status = "failed"
                  /\ jobs'[i].finished_at = now
      ]_vars

C4_Witness ==
    /\ \E i \in DOMAIN jobs :
         /\ jobs[i].status = "pending" /\ jobs[i].retry_after # NULL
         /\ jobs[i].attempts < jobs[i].max_attempts
    /\ \E i \in DOMAIN jobs :
         jobs[i].status = "failed" /\ jobs[i].attempts = jobs[i].max_attempts

(* C5: claim_job returns only a job that was pending with retry_after null
   or not in the future; on return the job is running, claimed by the
   caller at the current time, with attempts one greater than before. *)
C5_ClaimOnlyPending ==
    [][ \A w \in Workers : ClaimStep(w) =>
          LET i == wk'[w].job.id IN
          /\ i \in DOMAIN jobs
          /\ jobs[i].status = "pending"
          /\ (jobs[i].retry_after = NULL \/ jobs[i].retry_after <= now)
          /\ jobs'[i].status = "running"
          /\ jobs'[i].claimed_by = w
          /\ jobs'[i].claimed_at = now
          /\ jobs'[i].attempts = jobs[i].attempts + 1
          /\ wk'[w].job.attempts = jobs[i].attempts + 1
      ]_vars

C5_Witness ==
    \E i \in DOMAIN jobs :
       /\ jobs[i].status = "running" /\ jobs[i].attempts = 2
       /\ jobs[i].retry_after # NULL /\ jobs[i].retry_after <= jobs[i].claimed_at
    /\ \E k \in DOMAIN jobs : jobs[k].status = "pending" /\ jobs[k].retry_after > now

(* C6: a running job whose owning worker died is eventually pending again,
   and the step that returns it to pending leaves attempts as they were. *)
OwnerGone(i) ==
    /\ i \in DOMAIN jobs
    /\ jobs[i].status = "running"
    /\ wk[jobs[i].claimed_by].state = "dead"

BackToPending(i) == i \in DOMAIN jobs /\ jobs[i].status = "pending"

C6_NoStuckRunning ==
    /\ \A i \in 1 .. MaxJobs : OwnerGone(i) ~> BackToPending(i)
    /\ [][ \A i \in DOMAIN jobs :
             (OwnerGone(i) /\ jobs'[i].status # "running") =>
                (jobs'[i].status = "pending" /\ jobs'[i].attempts = jobs[i].attempts)
         ]_vars

C6_Witness ==
    \E i \in DOMAIN jobs :
       /\ jobs[i].status = "pending"
       /\ jobs[i].attempts >= 1
       /\ jobs[i].retry_after = NULL
       /\ wk[jobs[i].claimed_by].state = "dead"

----------------------------------------------------------------------------
(* Coordination properties *)

LinkJobs(l) ==
    { i \in DOMAIN jobs : jobs[i].kind = LINK_LIBRARY /\ jobs[i].library = l }

(* Test 1: no paper of the library is still being parsed or extracted *)
NothingInProcessing(l) ==
    \A i \in DOMAIN jobs :
       (jobs[i].kind \in {PARSE_PAPER, EXTRACT_ELEMENTS}
          /\ jobs[i].status \in {"pending", "running"})
       => library_papers[l, jobs[i].paper] = NULL

(* link_library jobs of the library enqueued within the debounce window *)
LinksInWindow(l) == { i \in LinkJobs(l) : now - jobs[i].created_at <= DEBOUNCE_MINUTES }

(* Test 2 fails: one of them is still pending *)
PendingLinkInWindow(l) == \E i \in LinksInWindow(l) : jobs[i].status = "pending"

(* Test 3: something to do *)
SomethingToDo(l) ==
    has_unlinked_extracts_for_library(jobs, extracts, library_papers, l)

(* The caller's coordination call decides about its library in this step *)
Decides(c) == co[c].phase = "check" /\ co'[c] # co[c]

(* ... and the decision is to enqueue *)
DecidesToEnqueue(c) == Decides(c) /\ co'[c].phase = "insert"

(* C7: a coordination call for a library decides to enqueue link_library if
   and only if nothing of the library is in processing, no pending
   link_library of it was created within the debounce window, and the library
   has unlinked extracts *)
C7_EnqueueIffThreeTests ==
    [][\A c \in Callers :
         Decides(c) =>
           (DecidesToEnqueue(c) <=>
              /\ NothingInProcessing(co[c].lib)
              /\ ~PendingLinkInWindow(co[c].lib)
              /\ SomethingToDo(co[c].lib))]_vars

(* C8 as stated: a coordination call deciding within the debounce window after
   a link_library job was enqueued for its library enqueues nothing *)
C8_SkipWithinWindow ==
    [][\A c \in Callers :
         (Decides(c) /\ LinksInWindow(co[c].lib) # {}) =>
            ~DecidesToEnqueue(c) /\ jobs' = jobs]_vars

(* C8: a coordination call deciding while a link_library job of its library,
   enqueued within the debounce window, is still pending skips the library
   and enqueues nothing *)
C8_SkipWhilePendingInWindow ==
    [][\A c \in Callers :
         (Decides(c) /\ PendingLinkInWindow(co[c].lib)) =>
            ~DecidesToEnqueue(c) /\ jobs' = jobs]_vars

(* A call is at its checks, nothing is in processing, and a link_library job
   enqueued just before is pending *)
C8_Witness ==
    \E c \in Callers :
       /\ co[c].phase = "check"
       /\ NothingInProcessing(co[c].lib)
       /\ PendingLinkInWindow(co[c].lib)

(* No coordination call is under way and no extraction is waiting or running *)
Quiet ==
    /\ \A c \in Callers : co[c].phase = "none"
    /\ \A i \in DOMAIN jobs :
          jobs[i].kind = EXTRACT_ELEMENTS => jobs[i].status \notin {"pending", "running"}

(* The completed jobs of a kind for a paper *)
CompletedFor(kind, p) ==
    { i \in DOMAIN jobs : /\ jobs[i].kind = kind
                            /\ jobs[i].paper = p
                            /\ jobs[i].status = "completed" }

HasExtract(p, ty) == \E e \in extracts : e.paper = p /\ e.type = ty

(* The library was linked before the runs start *)
LinkedBefore(l) == \E i \in LinkJobs(l) : jobs[i].created_at < CoordStart

(* C9: two papers of an already linked library finished extraction on
   different workers within the debounce window: exactly one link_library job
   was enqueued for the library *)
C9_BurstEnqueuesOne ==
    ( /\ LinkedBefore(1)
      /\ Quiet
      /\ \A p \in Papers : /\ library_papers[1, p] # NULL
                            /\ library_papers[1, p] < CoordStart
                            /\ HasExtract(p, "claim")
      /\ \E i \in CompletedFor(EXTRACT_ELEMENTS, 1) :
           \E k \in CompletedFor(EXTRACT_ELEMENTS, 2) :
              /\ jobs[i].claimed_by # jobs[k].claimed_by
              /\ jobs[i].finished_at - jobs[k].finished_at <= DEBOUNCE_MINUTES
              /\ jobs[k].finished_at - jobs[i].finished_at <= DEBOUNCE_MINUTES )
    => Cardinality({ i \in LinkJobs(1) : jobs[i].created_at >= CoordStart }) = 1

(* C10: the papers of a never linked library are all parsed and extracted,
   each with a claim and an observation: exactly one link_library job was
   enqueued for the library, with cutoff null *)
C10_FreshEnqueuesOne ==
    ( /\ ~LinkedBefore(1)
      /\ Quiet
      /\ PapersOf(library_papers, 1) # {}
      /\ \A p \in PapersOf(library_papers, 1) :
            /\ library_papers[1, p] < CoordStart
            /\ CompletedFor(PARSE_PAPER, p) # {}
            /\ CompletedFor(EXTRACT_ELEMENTS, p) # {}
            /\ HasExtract(p, "claim")
            /\ HasExtract(p, "observation") )
    => /\ Cardinality(LinkJobs(1)) = 1
       /\ \A i \in LinkJobs(1) : jobs[i].cutoff = NULL

----------------------------------------------------------------------------
(* Cutoff properties *)

(* C11: every completed link_library job was claimed at or after the cutoff
   in its payload *)
C11_CutoffMonotone ==
    \A i \in DOMAIN jobs :
       (jobs[i].kind = LINK_LIBRARY /\ jobs[i].status = "completed"
          /\ jobs[i].cutoff # NULL)
       => jobs[i].claimed_at >= jobs[i].cutoff

(* A job enqueued with a cutoff completed at its second attempt or later *)
C11_Witness ==
    \E i \in DOMAIN jobs :
       /\ jobs[i].kind = LINK_LIBRARY
       /\ jobs[i].status = "completed"
       /\ jobs[i].cutoff # NULL
       /\ jobs[i].attempts > 1

(* The claim times of the library's link_library jobs that are completed or
   running *)
ContributingClaimTimes(l) ==
    { jobs[i].claimed_at : i \in { k \in LinkJobs(l) :
                                     jobs[k].status \in {"completed", "running"} } }

(* The greatest of them, null without any *)
LastClaimedAt(l) ==
    IF ContributingClaimTimes(l) = {} THEN NULL
    ELSE CHOOSE t \in ContributingClaimTimes(l) :
           \A u \in ContributingClaimTimes(l) : u <= t

(* The caller's coordination call enqueues in this step *)
Enqueues(c) == co[c].phase = "insert" /\ Len(jobs') = Len(jobs) + 1

(* C12 as stated: the cutoff of a newly enqueued link_library job is the
   greatest claimed_at among the library's completed or running link_library
   jobs at enqueue time, null without any *)
C12_CutoffAtEnqueue ==
    [][\A c \in Callers :
         Enqueues(c) => jobs'[Len(jobs')].cutoff = LastClaimedAt(co[c].lib)]_vars

(* C12: the cutoff of a newly enqueued link_library job is the greatest
   claimed_at among the library's link_library jobs that were completed or
   running when the coordination call computed it, right after its checks;
   pending and failed jobs and jobs of other libraries do not contribute *)
C12_CutoffAtComputation ==
    /\ [][\A c \in Callers :
            DecidesToEnqueue(c) => co'[c].cutoff = LastClaimedAt(co[c].lib)]_vars
    /\ [][\A c \in Callers :
            Enqueues(c) =>
               /\ jobs'[Len(jobs')].kind = LINK_LIBRARY
               /\ jobs'[Len(jobs')].library = co[c].lib
               /\ jobs'[Len(jobs')].cutoff = co[c].cutoff]_vars

(* A job was enqueued with the cutoff of an older completed job while a
   failed job of the library or a job of another library was claimed later *)
C12_Witness ==
    \E i \in LinkJobs(1) :
       /\ jobs[i].created_at >= CoordStart
       /\ jobs[i].cutoff = 0
       /\ \E k \in DOMAIN jobs :
             /\ jobs[k].kind = LINK_LIBRARY
             /\ jobs[k].claimed_at > 0
             /\ jobs[k].library # 1 \/ jobs[k].status = "failed"

----------------------------------------------------------------------------
(* Unlinked-set properties *)

(* The claims of the latest extraction sets of the library's papers that were
   created after the instant c, or whose paper was added after it *)
UnlinkedAfter(l, c) ==
    { e \in extracts :
        /\ e.type = "claim"
        /\ library_papers[l, e.paper] # NULL
        /\ e \in get_latest_by_paper(extracts, e.paper, "claim")
        /\ (e.created_at > c \/ library_papers[l, e.paper] > c) }

(* A claim made before the instant c, of a paper added to the library after it *)
AddedAfter(l, c) ==
    { e \in UnlinkedAfter(l, c) : e.created_at < c /\ library_papers[l, e.paper] > c }

(* C13: for a library that was linked before, the unlinked set computed from
   the last link job's claimed_at, and the one a link job computes from the
   cutoff of its payload, are exactly the claims of the latest extraction sets
   created after the cutoff or of a paper added after the cutoff; and a
   coordination call that finds nothing in processing and no pending
   link_library in the window, while such a paper's older claims are
   unlinked, decides to enqueue *)
C13_UnlinkedAfterCutoff ==
    /\ [](\A l \in Libraries :
            /\ LastClaimedAt(l) # NULL =>
                 get_unlinked_claims_for_library(extracts, library_papers, l,
                     get_previous_link_job_claimed_at(jobs, l))
                   = UnlinkedAfter(l, LastClaimedAt(l))
            /\ \A i \in LinkJobs(l) :
                 jobs[i].cutoff # NULL =>
                   get_unlinked_claims_for_library(extracts, library_papers, l,
                       fromisoformat(isoformat(jobs[i].cutoff)))
                     = UnlinkedAfter(l, jobs[i].cutoff))
    /\ [][\A c \in Callers :
            ( /\ Decides(c)
              /\ NothingInProcessing(co[c].lib)
              /\ ~PendingLinkInWindow(co[c].lib)
              /\ LastClaimedAt(co[c].lib) # NULL
              /\ AddedAfter(co[c].lib, LastClaimedAt(co[c].lib)) # {} )
            => DecidesToEnqueue(c)]_vars

(* A paper extracted before the last link job was added to the library after
   it, and a link_library job with that cutoff was enqueued since: its
   unlinked set holds the paper's claim *)
C13_Witness ==
    \E i \in LinkJobs(1) :
       /\ jobs[i].status = "pending"
       /\ jobs[i].cutoff # NULL
       /\ \E e \in AddedAfter(1, jobs[i].cutoff) :
            /\ library_papers[1, e.paper] <= jobs[i].created_at
            /\ e \in get_unlinked_claims_for_library(extracts, library_papers, 1,
                         fromisoformat(isoformat(jobs[i].cutoff)))

(* The library was never linked and holds claims but no observation *)
ClaimsOnly(l) ==
    /\ LastClaimedAt(l) = NULL
    /\ get_all_extracts_by_library(extracts, library_papers, l, "claim") # {}
    /\ get_all_extracts_by_library(extracts, library_papers, l, "observation") = {}

(* C14: a never linked library has unlinked extracts if and only if it has a
   claim and an observation, and no coordination call decides to enqueue
   link_library for a library that holds only claims *)
C14_NullCutoffNeedsBoth ==
    /\ [](\A l \in Libraries :
            LastClaimedAt(l) = NULL =>
              ( SomethingToDo(l) <=>
                  \E e, f \in extracts :
                     /\ e.type = "claim" /\ library_papers[l, e.paper] # NULL
                     /\ f.type = "observation" /\ library_papers[l, f.paper] # NULL ))
    /\ [][\A c \in Callers :
            (Decides(c) /\ ClaimsOnly(co[c].lib)) => ~DecidesToEnqueue(c)]_vars

----------------------------------------------------------------------------
(* Extraction properties *)

(* The worker's handler run of an extract_elements job ends in this step *)
ExtractionEnds(w) ==
    /\ wk[w].state = "handling"
    /\ wk[w].job.kind = EXTRACT_ELEMENTS
    /\ wk'[w].state # "handling"

(* C15: a paper has one extract_elements job; when the handler runs again
   for the job after an attempt that stored extracts of the paper, it stores
   no further extracts *)
C15_IdempotentExtraction ==
    [][\A w \in Workers :
         ( /\ ExtractionEnds(w)
           /\ wk[w].job.attempts > 1
           /\ \E e \in extracts : e.paper = wk[w].job.paper )
         => extracts' = extracts]_vars

----------------------------------------------------------------------------
(* Linking properties *)

(* The attempts of a job that went through a phase for an input claim and
   saved the links of the phase *)
AttemptsOf(j, event, q) ==
    { e.attempt : e \in { e \in log : e.job = j /\ e.event = event /\ e.what = q } }

(* C16: no input claim goes through the claim-to-claim phase, or through the
   claim-to-observation phase, in two attempts of one link_library job: an
   attempt after one that saved the links of a claim leaves the claim out *)
C16_ResumeSkipsDone ==
    \A e \in log :
       e.event \in {"c2c", "c2o"} =>
          Cardinality(AttemptsOf(e.job, e.event, e.what)) <= 1

(* The worker's handler run saves its evidence links in this step *)
Saves(w) ==
    /\ run[w].phase = "save"
    /\ run'[w].phase = "none"
    /\ Entries(wk[w].job, "c2o", run[w].inputs) \subseteq log'

(* The pair of a link row *)
PairOf(r) == <<r.from_id, r.to_id>>

(* C17: extract_links holds at most one row for each ordered pair
   (from_id, to_id), and no step changes or removes a row that is there:
   the insert of a pair that has a row leaves it as it is, and the handler
   that inserts goes on to its next step *)
C17_LinkUniqueness ==
    /\ [](\A r, x \in extract_links : PairOf(r) = PairOf(x) => r = x)
    /\ [][extract_links \subseteq extract_links']_vars
    /\ [][\A w \in Workers :
            ( /\ Saves(w)
              /\ extract_links' = extract_links
              /\ \E k \in run[w].found :
                   \E r \in extract_links :
                      PairOf(r) = <<k.claim_id, k.observation_id>> )
            => jobs'[wk[w].job.id].status = "completed"]_vars

(* Both jobs saved links, one of an attempt found a pair in the table, and
   the table holds a row of each category *)
C17_Witness ==
    /\ Flag("ignored") \in log
    /\ \E e, f \in log : e.event = "c2c" /\ f.event = "c2c" /\ e.job # f.job
    /\ \E r, x \in extract_links :
          /\ r.content.link_category = "claim_to_claim"
          /\ x.content.link_category = "claim_to_observation"

(* The ids of the library's claims and observations, latest set per paper *)
C_all(l) == Ids(get_all_extracts_by_library(extracts, library_papers, l, "claim"))
O_all(l) == Ids(get_all_extracts_by_library(extracts, library_papers, l, "observation"))

(* A proposed evidence link with both endpoints legal *)
Legal(k, l) ==
    /\ k.claim_id \notin {JunkId, StrayId} /\ k.claim_id \in C_all(l)
    /\ k.observation_id \notin {JunkId, StrayId} /\ k.observation_id \in O_all(l)

(* C18: every row of extract_links has legal endpoints: a claim_to_claim row
   two claims of the library, a claim_to_observation row a claim and an
   observation of it; and a save of a batch with illegal links completes the
   job, with every legal link of the batch in the table *)
C18_LegalWriteSurface ==
    /\ [](\A r \in extract_links :
            /\ r.from_id \in C_all(1)
            /\ r.content.link_category = "claim_to_claim" => r.to_id \in C_all(1)
            /\ r.content.link_category = "claim_to_observation" => r.to_id \in O_all(1))
    /\ [][\A w \in Workers :
            Saves(w)
            => /\ jobs'[wk[w].job.id].status = "completed"
               /\ \A k \in run[w].found :
                    Legal(k, wk[w].job.library)
                    <=> \E r \in extract_links' :
                           PairOf(r) = <<k.claim_id, k.observation_id>>]_vars

(* The only job completed at its first attempt; a link of its batch was
   skipped and another one is in the table *)
C18_Witness ==
    /\ Len(jobs) = 1
    /\ jobs[1].status = "completed"
    /\ jobs[1].attempts = 1
    /\ Flag("skipped") \in log
    /\ \E r \in extract_links : r.content.link_category = "claim_to_observation"

----------------------------------------------------------------------------
(* Latest-set properties *)

(* The extraction run that wrote a row: the job and its attempt *)
RunOf(e) == <<e.id[1], e.id[2]>>

RowsOf(p, ty) == { e \in extracts : e.paper = p /\ e.type = ty }

(* The runs that wrote a newest row of the paper and type *)
NewestRuns(p, ty) ==
    { RunOf(e) : e \in { e \in RowsOf(p, ty) :
                           \A f \in RowsOf(p, ty) : f.created_at <= e.created_at } }

(* C19: for a paper of a library and a type with one newest extraction run,
   the extracts of the library for that paper and type are the rows of that
   run, and no row of an older run *)
C19_LatestPerPaperType ==
    \A l \in Libraries : \A p \in PapersOf(library_papers, l) :
       \A ty \in {"claim", "observation"} :
          Cardinality(NewestRuns(p, ty)) = 1 =>
             { e \in get_all_extracts_by_library(extracts, library_papers, l, ty) :
                 e.paper = p }
               = { e \in RowsOf(p, ty) : RunOf(e) \in NewestRuns(p, ty) }

----------------------------------------------------------------------------
(* Ordering of extraction and linking *)

(* The worker's claim returns a link_library job in this step *)
ClaimsLink(w) ==
    /\ wk[w].state = "idle"
    /\ wk'[w].state = "handling"
    /\ wk'[w].job.kind = LINK_LIBRARY

(* The extract_elements jobs of the library's papers that were enqueued
   before job i and have stored extracts *)
ExtractionsBefore(i) ==
    { j \in 1 .. (i - 1) :
        /\ jobs[j].kind = EXTRACT_ELEMENTS
        /\ library_papers[jobs[i].library, jobs[j].paper] # NULL
        /\ \E e \in extracts : e.id[1] = j }

(* C20: when a link_library job is claimed, every extract_elements job of a
   paper of its library that was enqueued before it and has stored its
   extracts is completed or failed *)
C20_LinkAfterExtractions ==
    [][\A w \in Workers :
         ClaimsLink(w) =>
            \A j \in ExtractionsBefore(wk'[w].job.id) :
               jobs[j].status \in {"completed", "failed"}]_vars

----------------------------------------------------------------------------
(* A link_library job that fails for good, and the triggers after it *)

(* Library 1 was linked once; paper 1 is in it and has one claim, stored
   before or after that link job was claimed *)
RetriggerInit ==
    /\ now = CoordStart
    /\ \E c \in 0 .. 1 :
         jobs = << [Done(LINK_LIBRARY, NULL, 1)
                      EXCEPT !.claimed_at = c, !.finished_at = c] >>
    /\ wk = [w \in Workers |-> IdleWorker]
    /\ ret = "none"
    /\ library_papers = [l \in Libraries, p \in Papers |->
                           IF p = 1 THEN 0 ELSE NULL]
    /\ \E t \in 0 .. CoordStart :
         extracts = { [id |-> <<1, 1, "claim">>, paper |-> 1, type |-> "claim",
                       job_id |-> NULL, created_at |-> t] }
    /\ co = [c \in Callers |-> NoCall]
    /\ extract_links = {}
    /\ run = [w \in Workers |-> NoRun]
    /\ log = {}
    /\ pool = "serving"

RetriggerNext ==
    \/ \E l \in Libraries, p \in Papers : ApiAddPapers(l, p)
    \/ Check(ApiCaller)
    \/ Insert(ApiCaller)
    \/ \E w \in Workers : \/ WorkerClaim(w)
                           \/ WorkerWake(w)
                           \/ LinkFetch(w)
                           \/ LinkC2C(w)
                           \/ LinkC2O(w)
                           \/ LinkSave(w)
                           \/ LinkFail(w)

RetriggerSpec == RetriggerInit /\ [][RetriggerNext]_vars

(* The input claims an attempt of job i took into its claim-to-claim phase *)
InputsOf(i) == { e.what : e \in { x \in log : x.job = i /\ x.event = "c2c" } }

(* The input claims of the runs that went through to the end *)
Processed == { e.what : e \in { x \in log : x.event = "c2o" } }

(* The link_library jobs of library l that failed for good *)
FailedLinks(l) ==
    { i \in DOMAIN jobs : /\ jobs[i].kind = LINK_LIBRARY
                          /\ jobs[i].library = l
                          /\ jobs[i].status = "failed" }

(* The input of a link_library job with this payload cutoff, as of now *)
InputWith(l, cutoff) ==
    Ids(get_unlinked_claims_for_library(extracts, library_papers, l,
           IF cutoff = NULL THEN NULL ELSE fromisoformat(isoformat(cutoff))))

(* C21: when a coordination call decides to enqueue a link_library job for a
   library, the cutoff it computed puts into the new job's input every claim
   that a permanently failed link_library job of the library had as input
   and that no run has processed to the end *)
C21_FailedWindowRetried ==
    [][\A c \in Callers :
         (co[c].phase = "check" /\ co'[c].phase = "insert") =>
            \A i \in FailedLinks(co[c].lib) :
               (InputsOf(i) \ Processed)
                  \subseteq InputWith(co[c].lib, co'[c].cutoff)]_vars

----------------------------------------------------------------------------
(* Columns of a job row *)

(* C23: in every state a job's finished_at is set exactly when its status is
   completed or failed; pending and running jobs, also those returned to
   pending for a retry, have none *)
C23_FinishedIffTerminal ==
    \A i \in DOMAIN jobs :
       (jobs[i].finished_at # NULL) <=> (jobs[i].status \in Terminal)

C23_Witness ==
    /\ \E i \in DOMAIN jobs :
         /\ jobs[i].status = "pending" /\ jobs[i].retry_after # NULL
         /\ jobs[i].error /\ jobs[i].finished_at = NULL
    /\ \E i \in DOMAIN jobs :
         /\ jobs[i].status = "failed" /\ jobs[i].attempts = jobs[i].max_attempts
         /\ jobs[i].finished_at # NULL

----------------------------------------------------------------------------
(* The background workers of the API process (main.py) *)

(* lifespan, after the yield: every worker task is cancelled. A task that
   waits for its handler gets CancelledError there, which run_worker's inner
   "except Exception" does not catch: the loop is left without a
   complete_job call *)
ApiShutdown ==
    /\ \A w \in Workers : wk[w].state # "stopped"
    /\ wk' = [w \in Workers |-> [state |-> "stopped", job |-> NoJob]]
    /\ UNCHANGED <<now, jobs, ret, storeVars, pool>>

(* lifespan, before the yield, in the next API process: the workers are
   started under the same ids, api-worker-1 .. api-worker-N *)
ApiStartup ==
    /\ \A w \in Workers : wk[w].state = "stopped"
    /\ wk' = [w \in Workers |-> IdleWorker]
    /\ UNCHANGED <<now, jobs, ret, storeVars, pool>>

ApiNext ==
    \/ Enqueue
    \/ \E w \in Workers : WorkerClaim(w)
    \/ \E w \in Workers : WorkerWake(w)
    \/ \E w \in Workers : WorkerFinish(w)
    \/ ApiShutdown
    \/ ApiStartup
    \/ Tick

ApiSpec == Init /\ [][ApiNext]_vars

(* The running jobs claimed under the id of worker w *)
RunningUnder(w) ==
    { i \in DOMAIN jobs : jobs[i].status = "running" /\ jobs[i].claimed_by = w }

(* C24: at every moment at most one job is running with claimed_by equal to
   a given worker id, and when a worker's claim call returns a job, the job
   it claimed before has been through its complete call and none is running
   under its id *)
C24_OneJobPerWorker ==
    /\ [](\A w \in Workers : Cardinality(RunningUnder(w)) <= 1)
    /\ [][\A w \in Workers : ClaimStep(w) => RunningUnder(w) = {}]_vars

----------------------------------------------------------------------------
(* Shutdown of the worker pool (worker.py) *)

(* main: handle_signal on SIGINT or SIGTERM calls WorkerPool.shutdown, which
   sets the shutdown event; a further signal sets it again *)
Signal ==
    /\ pool \in {"serving", "signalled"}
    /\ pool' = IF pool = "serving" THEN "signalled" ELSE pool
    /\ pool' # pool
    /\ UNCHANGED <<now, jobs, wk, ret, storeVars>>

(* WorkerPool.start: its wait for the shutdown event is over and it calls
   stop on every worker *)
PoolStop ==
    /\ pool = "signalled"
    /\ pool' = "draining"
    /\ UNCHANGED <<now, jobs, wk, ret, storeVars>>

(* Worker.run: the loop condition is false, the worker logs "Stopped" *)
WorkerExit(w) ==
    /\ wk[w].state = "idle"
    /\ ~Running(pool)
    /\ wk' = [wk EXCEPT ![w] = [state |-> "stopped", job |-> NoJob]]
    /\ UNCHANGED <<now, jobs, ret, storeVars, pool>>

(* WorkerPool.start: gather over the worker tasks returns *)
PoolJoin ==
    /\ pool = "draining"
    /\ \A w \in Workers : wk[w].state = "stopped"
    /\ pool' = "terminated"
    /\ UNCHANGED <<now, jobs, wk, ret, storeVars>>

DrainNext ==
    \/ Enqueue
    \/ \E w \in Workers : WorkerClaim(w)
    \/ \E w \in Workers : WorkerWake(w)
    \/ \E w \in Workers : WorkerFinish(w)
    \/ \E w \in Workers : WorkerExit(w)
    \/ Signal
    \/ PoolStop
    \/ PoolJoin

(* Handlers return, sleeps end and the event loop runs every task that is
   ready *)
DrainSpec ==
    /\ Init
    /\ [][DrainNext]_vars
    /\ WF_vars(PoolStop)
    /\ WF_vars(PoolJoin)
    /\ \A w \in Workers :
         WF_vars(WorkerFinish(w)) /\ WF_vars(WorkerWake(w)) /\ WF_vars(WorkerExit(w))

(* In the pool states `since`: no worker claims a job, and a worker that
   is executing a job goes on only by calling complete_job for it *)
DrainStep(since) ==
    \A w \in Workers :
       pool \in since =>
          /\ ~ClaimStep(w)
          /\ (wk[w].state = "handling" /\ wk'[w] # wk[w]) =>
                /\ CompleteStep(w)
                /\ ret' = "true"
                /\ jobs'[wk[w].job.id].status # "running"

(* The pool is terminated only with every worker stopped *)
TerminatedWhenStopped ==
    pool = "terminated" => \A w \in Workers : wk[w].state = "stopped"

(* C25 as stated: from the moment the signal is received, each worker
   completes the job it is executing and claims no further job; the pool
   terminates once every worker has stopped *)
C25_DrainFromSignal ==
    /\ [][DrainStep({"signalled", "draining", "terminated"})]_vars
    /\ []TerminatedWhenStopped
    /\ (pool = "signalled") ~> (pool = "terminated")

(* C25: once the pool has taken up the signal and told its workers to stop,
   each worker completes the job it is executing and claims no further job;
   the pool terminates when every worker has stopped, and after a signal it
   does *)
C25_DrainFromStop ==
    /\ [][DrainStep({"draining", "terminated"})]_vars
    /\ []TerminatedWhenStopped
    /\ (pool = "signalled") ~> (pool = "terminated")

C25_Witness ==
    /\ pool = "draining"
    /\ \E w \in Workers : wk[w].state = "handling"
    /\ \E w \in Workers : wk[w].state = "stopped"
    /\ Claimable(jobs, now) # {}

----------------------------------------------------------------------------
(* Supervision of the workers *)

(* The workers that run their loop *)
Live == { w \in Workers : wk[w].state \notin {"dead", "stopped"} }

(* C26: while shutdown is not requested, a worker that crashed is restarted,
   so that all NumWorkers workers are live again; once shutdown is requested
   no worker is restarted *)
C26_CrashedWorkerRestarted ==
    /\ (pool = "serving" /\ Cardinality(Live) < NumWorkers)
          ~> (pool # "serving" \/ Cardinality(Live) = NumWorkers)
    /\ [][pool # "serving" => Live' \subseteq Live]_vars

----------------------------------------------------------------------------
(* From upload to extraction *)

(* PaperStorage.upload_paper: the paper is stored and its parse_paper job is
   created, once per paper *)
UploadPaper(p) ==
    /\ \A i \in DOMAIN jobs : jobs[i].paper # p
    /\ jobs' = Append(jobs, create_job(PARSE_PAPER, p, NULL, NULL,
                                       DEFAULT_MAX_ATTEMPTS))
    /\ UNCHANGED <<now, wk, ret, storeVars, pool>>

(* Uploads and the workers; handle_parse_paper creates no job, so
   Worker._process_job completes or fails the parse_paper job and that is
   all *)
PipelineNext ==
    \/ \E p \in Papers : UploadPaper(p)
    \/ \E w \in Workers : WorkerClaim(w)
    \/ \E w \in Workers : WorkerWake(w)
    \/ \E w \in Workers : WorkerFinish(w)
    \/ Tick

PipelineSpec == Init /\ [][PipelineNext]_vars

(* C27: every completed parse_paper job of a paper has an extract_elements
   job with that paper as paper_id in the jobs table *)
C27_ParseEnqueuesExtract ==
    \A i \in DOMAIN jobs :
       (jobs[i].kind = PARSE_PAPER /\ jobs[i].status = "completed") =>
          \E k \in DOMAIN jobs :
             jobs[k].kind = EXTRACT_ELEMENTS /\ jobs[k].paper = jobs[i].paper

(* C28: the payload a handler gets holds the id of the job under job_id, and
   every extract in the store carries the id of the job that wrote it *)
C28_PayloadCarriesJobId ==
    /\ \A w \in Workers :
          wk[w].state \in {"handling", "coord"} =>
             PayloadJobId(wk[w].job) = wk[w].job.id
    /\ \A e \in extracts : e.job_id = e.id[1]

----------------------------------------------------------------------------
(* Two link_library jobs of one library *)

(* Library 1 holds paper 1, which has no extracts yet, and was linked at
   time 0. Job 2 was enqueued after that (cutoff 0) and claimed at time 1;
   its first attempt raised and it waits for its retry. Job 3 was enqueued
   while job 2 was running, with job 2's claimed_at as cutoff; job 2 has
   one attempt left, job 3 has one attempt. Paper 2 is extracted and has a
   claim; it is not in the library *)
OverlapInit ==
    /\ now = CoordStart
    /\ jobs = << Done(LINK_LIBRARY, NULL, 1),
                 [create_job(LINK_LIBRARY, NULL, 1, 0, MaxAttemptsBound)
                    EXCEPT !.created_at = 1, !.attempts = 1, !.claimed_by = 1,
                           !.claimed_at = 1, !.error = TRUE,
                           !.retry_after = CoordStart],
                 [create_job(LINK_LIBRARY, NULL, 1, 1, 1)
                    EXCEPT !.created_at = 1] >>
    /\ wk = [w \in Workers |-> IdleWorker]
    /\ ret = "none"
    /\ library_papers = [l \in Libraries, p \in Papers |->
                           IF p = 1 THEN 0 ELSE NULL]
    /\ extracts = { [id |-> <<2, 1, "claim">>, paper |-> 2, type |-> "claim",
                     job_id |-> NULL, created_at |-> 0] }
    /\ co = [c \in Callers |-> NoCall]
    /\ extract_links = {}
    /\ run = [w \in Workers |-> NoRun]
    /\ log = {}
    /\ pool = "serving"

OverlapSpec == OverlapInit /\ [][RetriggerNext]_vars

(* Two workers that run the handler for link_library jobs of one library and
   have fetched their input *)
RunTogether(w1, w2) ==
    /\ w1 # w2
    /\ wk[w1].state = "handling" /\ wk[w2].state = "handling"
    /\ wk[w1].job.kind = LINK_LIBRARY /\ wk[w2].job.kind = LINK_LIBRARY
    /\ wk[w1].job.library = wk[w2].job.library
    /\ run[w1].phase # "none" /\ run[w2].phase # "none"

(* C29: of two link_library jobs that run at the same time on one library
   each has as input only claims after its own cutoff, and the two inputs
   have no claim in common *)
C29_DisjointWindows ==
    /\ \A w \in Workers :
          (wk[w].state = "handling" /\ run[w].phase # "none") =>
             run[w].inputs \subseteq InputWith(wk[w].job.library, wk[w].job.cutoff)
    /\ \A w1, w2 \in Workers :
          RunTogether(w1, w2) => run[w1].inputs \cap run[w2].inputs = {}

----------------------------------------------------------------------------
(* The model calls of a link_library job, one by one *)

(* PairwiseLinkType, with "variant" for the symmetric labels, and "error"
   for a call that raises *)
PairOutcomes == {"error", "none", "premise_1_to_2", "premise_2_to_1", "variant"}

(* A task whose coroutine returned the links, and one whose exception
   reaches asyncio.gather *)
TaskReturned(links) == [raised |-> FALSE, links |-> links]
TaskRaised == [raised |-> TRUE, links |-> {}]

process_pair_reraises(pair, outcome) ==
    IF outcome = "error" THEN TaskRaised
    ELSE IF outcome = "none" THEN TaskReturned({})
    ELSE IF outcome = "premise_1_to_2"
    THEN TaskReturned({ [claim_id_1 |-> pair[1], claim_id_2 |-> pair[2],
                     link_type |-> "premise"] })
    ELSE IF outcome = "premise_2_to_1"
    THEN TaskReturned({ [claim_id_1 |-> pair[2], claim_id_2 |-> pair[1],
                     link_type |-> "premise"] })
    ELSE TaskReturned({ [claim_id_1 |-> pair[1], claim_id_2 |-> pair[2],
                     link_type |-> outcome] })

process_pair_as_paired(pair, outcome) ==
    IF outcome \in {"error", "none"} THEN TaskReturned({})
    ELSE TaskReturned({ [claim_id_1 |-> pair[1], claim_id_2 |-> pair[2],
                         link_type |-> IF outcome \in {"premise_1_to_2", "premise_2_to_1"}
                                       THEN "premise" ELSE outcome] })

(* _process_pair: the label becomes a link, "none" and an exception of the
   call become no link *)
process_pair(pair, outcome) ==
    IF outcome = "error" THEN TaskReturned({})
    ELSE IF outcome = "none" THEN TaskReturned({})
    ELSE IF outcome = "premise_1_to_2"
    THEN TaskReturned({ [claim_id_1 |-> pair[1], claim_id_2 |-> pair[2],
                     link_type |-> "premise"] })
    ELSE IF outcome = "premise_2_to_1"
    THEN TaskReturned({ [claim_id_1 |-> pair[2], claim_id_2 |-> pair[1],
                     link_type |-> "premise"] })
    ELSE TaskReturned({ [claim_id_1 |-> pair[1], claim_id_2 |-> pair[2],
                     link_type |-> outcome] })

(* What a method selection call can do: raise, or select methods. The
   selection is kept as the observations the selected methods produced
   (observations_by_method) *)
SelectOutcomes(observations) ==
    { [ok |-> FALSE, selected |-> {}] }
    \cup { [ok |-> TRUE, selected |-> s] : s \in SUBSET observations }

(* _select_methods_for_claim: an exception of the call selects nothing *)
select_methods_for_claim(outcome) ==
    IF outcome.ok THEN TaskReturned(outcome.selected) ELSE TaskReturned({})

(* What the evidence call of claim q can do: raise, or link q to some of
   its candidate observations; without candidates there is no call *)
EvidenceOutcomes(q, candidates) ==
    (IF candidates = {} THEN {} ELSE { [ok |-> FALSE, links |-> {}] })
    \cup { [ok |-> TRUE,
            links |-> { [claim_id |-> q, observation_id |-> o,
                         link_type |-> "supports"] : o \in s }] :
           s \in SUBSET candidates }

(* _process_claim_async: without candidates no call is made; an exception
   of the call leaves no links *)
process_claim_async(candidates, outcome) ==
    IF candidates = {} THEN TaskReturned({})
    ELSE IF outcome.ok THEN TaskReturned(outcome.links) ELSE TaskReturned({})

(* The observations of the paper of claim q (observations_by_paper); the
   paper is the first component of an id *)
SamePaper(q, observations) == { o \in observations : o[1] = q[1] }

(* Worker._process_job: an exception of the handler fails the attempt *)
HandlerRaises(w) ==
    /\ CallComplete(w, "failed")
    /\ wk' = [wk EXCEPT ![w] = IdleWorker]
    /\ run' = [run EXCEPT ![w] = NoRun]

(* link_claims_pairwise: the candidate pairs are built and one call per pair
   is made *)
LinkPairCalls(w) ==
    /\ wk[w].state = "handling"
    /\ run[w].phase = "c2c"
    /\ LET job == wk[w].job
           library_claims == Ids(get_all_extracts_by_library(extracts,
                                    library_papers, job.library, "claim"))
       IN \E pairs \in CandidatePairs(run[w].inputs, library_claims) :
          \E f \in [pairs -> PairOutcomes] :
            run' = [run EXCEPT ![w].phase = "paired",
                               ![w].found = { [call |-> pr, outcome |-> f[pr]] :
                                              pr \in pairs }]
    /\ UNCHANGED <<now, jobs, wk, ret, library_papers, extracts, co,
                   extract_links, log, pool>>

(* _link_pairs_async gathers the tasks; handle_link_library, step 3, saves
   the links with _save_c2c_links *)
LinkPairGather(w) ==
    /\ wk[w].state = "handling"
    /\ run[w].phase = "paired"
    /\ LET job == wk[w].job
           results == { process_pair(c.call, c.outcome) : c \in run[w].found }
           links == UNION { r.links : r \in results }
           records == c2c_records(links, run[w].valid_claim_ids)
           errors == { c.call[1] : c \in { c \in run[w].found : c.outcome = "error" } }
       IN IF \E r \in results : r.raised
          THEN /\ HandlerRaises(w)
               /\ UNCHANGED <<extract_links, log>>
          ELSE /\ extract_links' \in create_many(extract_links, records, job)
               /\ log' = log \cup Entries(job, "c2c", run[w].inputs)
                             \cup Entries(job, "pair_error", errors)
                             \cup Ignored(extract_links, extract_links', records)
               /\ run' = [run EXCEPT ![w].phase = "c2o", ![w].found = {}]
               /\ UNCHANGED <<jobs, wk, ret>>
    /\ UNCHANGED <<now, library_papers, extracts, co, pool>>

(* link_observations_to_input_claims: without observations no call is made;
   else select_methods_for_claims makes one call per input claim *)
LinkSelectCalls(w) ==
    /\ wk[w].state = "handling"
    /\ run[w].phase = "c2o"
    /\ LET job == wk[w].job
           observations == Ids(get_all_extracts_by_library(extracts,
                                  library_papers, job.library, "observation"))
       IN IF observations = {}
          THEN run' = [run EXCEPT ![w].phase = "save", ![w].found = {}]
          ELSE \E f \in [run[w].inputs -> SelectOutcomes(observations)] :
                 run' = [run EXCEPT ![w].phase = "selected",
                                    ![w].found = { [call |-> q, outcome |-> f[q]] :
                                                   q \in run[w].inputs }]
    /\ UNCHANGED <<now, jobs, wk, ret, library_papers, extracts, co,
                   extract_links, log, pool>>

(* _link_claims_async: the candidates of a claim are the observations of its
   selected methods and those of its paper; one evidence call per claim *)
LinkEvidenceCalls(w) ==
    /\ wk[w].state = "handling"
    /\ run[w].phase = "selected"
    /\ LET job == wk[w].job
           observations == Ids(get_all_extracts_by_library(extracts,
                                  library_papers, job.library, "observation"))
           selections == { [call |-> c.call,
                            result |-> select_methods_for_claim(c.outcome)] :
                           c \in run[w].found }
           errors == { c.call : c \in { c \in run[w].found : ~c.outcome.ok } }
       IN IF \E s \in selections : s.result.raised
          THEN /\ HandlerRaises(w)
               /\ UNCHANGED log
          ELSE /\ \E f \in [selections ->
                              UNION { EvidenceOutcomes(s.call, observations) :
                                      s \in selections }] :
                    /\ \A s \in selections :
                          f[s] \in EvidenceOutcomes(s.call,
                                      s.result.links \cup SamePaper(s.call, observations))
                    /\ run' = [run EXCEPT
                                 ![w].phase = "evidenced",
                                 ![w].found =
                                    { [call |-> s.call,
                                       candidates |-> s.result.links
                                                      \cup SamePaper(s.call, observations),
                                       outcome |-> f[s]] : s \in selections }]
               /\ log' = log \cup Entries(job, "select_error", errors)
               /\ UNCHANGED <<jobs, wk, ret>>
    /\ UNCHANGED <<now, library_papers, extracts, co, extract_links, pool>>

(* _link_claims_async gathers the tasks and link_observations_to_input_claims
   returns the links without duplicates *)
LinkEvidenceGather(w) ==
    /\ wk[w].state = "handling"
    /\ run[w].phase = "evidenced"
    /\ LET job == wk[w].job
           results == { process_claim_async(c.candidates, c.outcome) :
                        c \in run[w].found }
           errors == { c.call : c \in { c \in run[w].found :
                                          c.candidates # {} /\ ~c.outcome.ok } }
       IN IF \E r \in results : r.raised
          THEN /\ HandlerRaises(w)
               /\ UNCHANGED log
          ELSE /\ run' = [run EXCEPT ![w].phase = "save",
                                     ![w].found = UNION { r.links : r \in results }]
               /\ log' = log \cup Entries(job, "claim_error", errors)
               /\ UNCHANGED <<jobs, wk, ret>>
    /\ UNCHANGED <<now, library_papers, extracts, co, extract_links, pool>>

CallsNext ==
    \/ \E w \in Workers : \/ WorkerClaim(w)
                           \/ WorkerWake(w)
                           \/ LinkFetch(w)
                           \/ LinkPairCalls(w)
                           \/ LinkPairGather(w)
                           \/ LinkSelectCalls(w)
                           \/ LinkEvidenceCalls(w)
                           \/ LinkEvidenceGather(w)
                           \/ LinkSave(w)

(* The never linked library with one link_library job; the second paper has
   a second claim, so that the job has several candidate pairs *)
CallsInit ==
    /\ now = 0
    /\ jobs = << create_job(LINK_LIBRARY, NULL, 1, NULL, 1) >>
    /\ wk = [w \in Workers |-> IdleWorker]
    /\ ret = "none"
    /\ library_papers = [l \in Libraries, p \in Papers |-> 0]
    /\ extracts = UNION { Extracted(p, IF p = 1 THEN {"claim", "observation"}
                                       ELSE {"claim"}) : p \in Papers }
                  \cup { [id |-> <<2, 2, "claim">>, paper |-> 2, type |-> "claim",
                          job_id |-> NULL, created_at |-> 0] }
    /\ co = [c \in Callers |-> NoCall]
    /\ extract_links = {}
    /\ run = [w \in Workers |-> NoRun]
    /\ log = {}
    /\ pool = "serving"

CallsSpec == CallsInit /\ [][CallsNext]_vars

(* A row of the table for the pair of record r *)
Stored(table, r) ==
    \E x \in table : x.from_id = r.from_id /\ x.to_id = r.to_id

(* Worker w leaves the phase of its run *)
Leaves(w, phase) == run[w].phase = phase /\ run'[w].phase # phase

(* C30: a model call of a link_library job that raises (for a candidate
   pair, a method selection or the evidence of a claim) counts as an empty
   result of that call only: the step that gathers the calls does not fail
   the job, the links of the calls that returned are saved (claim to claim)
   or returned and then saved (claim to observation), the method selections
   that returned still give their claims their candidates, and the job
   completes *)
C30_CallFailureIsEmptyResult ==
    [][\A w \in Workers :
         /\ Leaves(w, "paired") =>
               /\ run'[w].phase = "c2o" /\ jobs' = jobs
               /\ \A c \in run[w].found :
                     c.outcome # "error" =>
                        \A r \in c2c_records(process_pair(c.call, c.outcome).links,
                                             run[w].valid_claim_ids) :
                           Stored(extract_links', r)
         /\ Leaves(w, "selected") =>
               /\ run'[w].phase = "evidenced" /\ jobs' = jobs
               /\ \A c \in run[w].found :
                     c.outcome.ok =>
                        \E d \in run'[w].found :
                           d.call = c.call /\ c.outcome.selected \subseteq d.candidates
         /\ Leaves(w, "evidenced") =>
               /\ run'[w].phase = "save" /\ jobs' = jobs
               /\ \A c \in run[w].found :
                     c.outcome.ok => c.outcome.links \subseteq run'[w].found
         /\ Leaves(w, "save") =>
               /\ jobs'[wk[w].job.id].status = "completed"
               /\ \A r \in c2o_records(run[w].found, run[w].valid_claim_ids,
                                       run[w].valid_observation_ids) :
                     Stored(extract_links', r)]_vars

(* A completed job with a pair call, a selection call and an evidence call
   that raised, and with links of both categories saved *)
C30_Witness ==
    \E i \in DOMAIN jobs :
       /\ jobs[i].status = "completed"
       /\ \A ev \in {"pair_error", "select_error", "claim_error"} :
             \E e \in log : e.job = i /\ e.event = ev
       /\ \A cat \in {"claim_to_claim", "claim_to_observation"} :
             \E x \in extract_links : x.content.link_category = cat

----------------------------------------------------------------------------
(* build_candidate_pairs on lists of claims *)

NumClaims == 3
ClaimIds == { <<p, 1, "claim">> : p \in 1 .. NumClaims }

(* The lists of distinct claims *)
ClaimLists == UNION { Orders(T) : T \in SUBSET ClaimIds }

(* The lists and the embeddings are given; no job is involved *)
PairsInit ==
    /\ now = 0
    /\ jobs = << >>
    /\ wk = [w \in Workers |-> IdleWorker]
    /\ ret = "none"
    /\ library_papers = [l \in Libraries, p \in Papers |-> NULL]
    /\ extracts = {}
    /\ co = [c \in Callers |-> NoCall]
    /\ extract_links = {}
    /\ \E I \in ClaimLists, C \in ClaimLists, e \in [ClaimIds -> Directions] :
         run = [w \in Workers |->
                  IF w = 1
                  THEN [phase |-> "given", input_claims |-> I,
                        library_claims |-> C, embedding |-> e, found |-> << >>]
                  ELSE NoRun]
    /\ log = {}
    /\ pool = "serving"

(* build_candidate_pairs is called with the default threshold *)
BuildPairs(w) ==
    /\ run[w].phase = "given"
    /\ run' = [run EXCEPT
                 ![w].phase = "built",
                 ![w].found = build_candidate_pairs(run[w].input_claims,
                                                    run[w].library_claims,
                                                    run[w].embedding, THRESHOLD)]
    /\ UNCHANGED <<now, jobs, wk, ret, library_papers, extracts, co,
                   extract_links, log, pool>>

PairsNext == \E w \in Workers : BuildPairs(w)

PairsSpec == PairsInit /\ [][PairsNext]_vars

(* The two claims of a pair, in no order *)
Unordered(pr) == {pr[1], pr[2]}

(* The unordered pairs of an input claim and a different library claim that
   are similar *)
SimilarPairs(r) ==
    { {a, b} : <<a, b>> \in
        { pr \in Elements(r.input_claims) \X Elements(r.library_claims) :
            /\ pr[1] # pr[2]
            /\ cosine_similarity(r.embedding[pr[1]], r.embedding[pr[2]])
                  >= THRESHOLD } }

(* C32: build_candidate_pairs returns exactly one candidate for each
   unordered pair of an input claim and a different library claim whose
   similarity reaches the threshold, and nothing else: no claim with itself,
   no pair below the threshold, no pair twice *)
C32_OneCandidatePerPair ==
    \A w \in Workers :
       run[w].phase = "built" =>
          LET P == run[w].found IN
          /\ \A u \in SimilarPairs(run[w]) :
                Cardinality({ n \in 1 .. Len(P) : Unordered(P[n]) = u }) = 1
          /\ \A n \in 1 .. Len(P) :
                /\ Unordered(P[n]) \in SimilarPairs(run[w])
                /\ P[n][1] \in Elements(run[w].input_claims)
                /\ P[n][2] \in Elements(run[w].library_claims)

(* Two similar claims that are both input claims and library claims, next to
   a pair below the threshold: one candidate was built *)
C32_Witness ==
    \E w \in Workers :
       /\ run[w].phase = "built"
       /\ Len(run[w].found) = 1
       /\ \E a, b, c \in Elements(run[w].input_claims)
                          \cap Elements(run[w].library_claims) :
             /\ a # b
             /\ cosine_similarity(run[w].embedding[a], run[w].embedding[b]) >= THRESHOLD
             /\ cosine_similarity(run[w].embedding[a], run[w].embedding[c]) < THRESHOLD
             /\ cosine_similarity(run[w].embedding[b], run[w].embedding[c]) < THRESHOLD

----------------------------------------------------------------------------
(* Symmetric links *)

(* ClaimLinkType: the link types that have no direction *)
SymmetricTypes == {"duplicate", "variant", "contradiction"}

SymmetricLinks ==
    { x \in extract_links : /\ x.content.link_category = "claim_to_claim"
                            /\ x.content.link_type \in SymmetricTypes }

(* C31: the store holds at most one symmetric claim_to_claim link per
   unordered pair of claims, never one from a to b and one from b to a *)
C31_SymmetricOnce ==
    \A x, y \in SymmetricLinks :
       ~(x.from_id = y.to_id /\ x.to_id = y.from_id)

----------------------------------------------------------------------------
(* The label of a candidate pair becomes a link *)

(* claim2claim_pairwise.PairwiseLinkType *)
PairwiseLinkType ==
    {"none", "duplicate", "variant", "contradiction",
     "premise_1_to_2", "premise_2_to_1"}

(* The candidate pairs of the claims: two different claims *)
ClaimPairs == { pr \in ClaimIds \X ClaimIds : pr[1] # pr[2] }

(* Each worker thread of the pool holds a candidate pair and the label the
   model gave it *)
LabelInit ==
    /\ now = 0
    /\ jobs = << >>
    /\ wk = [w \in Workers |-> IdleWorker]
    /\ ret = "none"
    /\ library_papers = [l \in Libraries, p \in Papers |-> NULL]
    /\ extracts = {}
    /\ co = [c \in Callers |-> NoCall]
    /\ extract_links = {}
    /\ \E pr \in [Workers -> ClaimPairs], label \in [Workers -> PairwiseLinkType] :
         run = [w \in Workers |->
                  [phase |-> "labelled", pair |-> pr[w], label |-> label[w],
                   found |-> {}]]
    /\ log = {}
    /\ pool = "serving"

(* _process_pair after the call returned *)
MapLabel(w) ==
    /\ run[w].phase = "labelled"
    /\ run' = [run EXCEPT
                 ![w].phase = "mapped",
                 ![w].found = process_pair(run[w].pair, run[w].label).links]
    /\ UNCHANGED <<now, jobs, wk, ret, library_papers, extracts, co,
                   extract_links, log, pool>>

LabelNext == \E w \in Workers : MapLabel(w)

LabelSpec == LabelInit /\ [][LabelNext]_vars

ClaimLink(claim_id_1, claim_id_2, link_type) ==
    [claim_id_1 |-> claim_id_1, claim_id_2 |-> claim_id_2, link_type |-> link_type]

(* C33: for a candidate pair (claim_1, claim_2), premise_1_to_2 gives a
   premise link from claim_1 to claim_2, premise_2_to_1 a premise link from
   claim_2 to claim_1, so that the premise is first; duplicate, variant and
   contradiction give a link of that type; none gives no link *)
C33_LabelToLink ==
    \A w \in Workers :
       run[w].phase = "mapped" =>
          LET claim_1 == run[w].pair[1]
              claim_2 == run[w].pair[2]
              label == run[w].label
          IN /\ label = "premise_1_to_2" =>
                   run[w].found = {ClaimLink(claim_1, claim_2, "premise")}
             /\ label = "premise_2_to_1" =>
                   run[w].found = {ClaimLink(claim_2, claim_1, "premise")}
             /\ label \in SymmetricTypes =>
                   /\ Cardinality(run[w].found) = 1
                   /\ \A k \in run[w].found :
                         /\ k.link_type = label
                         /\ {k.claim_id_1, k.claim_id_2} = {claim_1, claim_2}
             /\ label = "none" => run[w].found = {}

(* Pairs labelled premise_2_to_1 and contradiction were mapped *)
C33_Witness ==
    \E w1, w2 \in Workers :
       /\ run[w1].phase = "mapped" /\ run[w1].label = "premise_2_to_1"
       /\ run[w2].phase = "mapped" /\ run[w2].label = "contradiction"
       /\ run[w1].found # {} /\ run[w2].found # {}

----------------------------------------------------------------------------
(* Claims and the cutoff *)

(* The input claims of the attempt that completed link_library job i *)
CompletedInputs(i) ==
    { e.what : e \in { x \in log : /\ x.job = i /\ x.event = "c2c"
                                   /\ x.attempt = jobs[i].attempts } }

(* The claims of the library that the link_library job of the start state
   cannot have had as input: they were created after it was claimed *)
ClaimsSince(l) ==
    { e \in get_all_extracts_by_library(extracts, library_papers, l, "claim") :
        \A i \in LinkJobs(l) :
           jobs[i].created_at < CoordStart => e.created_at > jobs[i].claimed_at }

(* Nothing is going on for the library and nothing is left to do for it *)
Settled(l) ==
    /\ LinkedBefore(l)
    /\ \A c \in Callers : co[c].phase = "none"
    /\ NothingInProcessing(l)
    /\ \A i \in LinkJobs(l) : jobs[i].status \notin {"pending", "running"}
    /\ ~has_unlinked_extracts_for_library(jobs, extracts, library_papers, l)

(* C34: when a library was linked before, no job for it or its papers is
   pending or running and the detection of unlinked claims reports nothing,
   then every claim of the library was an input claim of a completed
   link_library job of the library *)
C34_NoClaimLost ==
    \A l \in Libraries :
       Settled(l) =>
          \A e \in ClaimsSince(l) :
             \E i \in LinkJobs(l) :
                jobs[i].status = "completed" /\ e.id \in CompletedInputs(i)

----------------------------------------------------------------------------
(* Worker._process_job, call by call *)

(* The handler returned a result; the worker holds it *)
HandlerReturns(w) ==
    /\ wk[w].state = "handling"
    /\ wk[w].job.kind = PARSE_PAPER
    /\ wk' = [wk EXCEPT ![w].state = "returned"]
    /\ UNCHANGED <<now, jobs, ret, storeVars, pool>>

(* The handler raised: the except branch marks the job failed *)
HandlerRaised(w) ==
    /\ wk[w].state = "handling"
    /\ wk[w].job.kind = PARSE_PAPER
    /\ CallComplete(w, "failed")
    /\ wk' = [wk EXCEPT ![w] = IdleWorker]
    /\ UNCHANGED <<now, storeVars, pool>>

(* complete_job with status completed returns *)
MarkCompleted(w) ==
    /\ wk[w].state = "returned"
    /\ CallComplete(w, "completed")
    /\ wk' = [wk EXCEPT ![w] = IdleWorker]
    /\ UNCHANGED <<now, storeVars, pool>>

(* complete_job with status completed raises inside the try block (the
   result cannot be serialized, the request fails, the response is lost):
   the procedure has run or it has not, and the except branch is entered *)
MarkCompletedRaises(w) ==
    /\ wk[w].state = "returned"
    /\ \/ UNCHANGED <<jobs, ret>>
       \/ CallComplete(w, "completed")
    /\ wk' = [wk EXCEPT ![w].state = "excepting"]
    /\ UNCHANGED <<now, storeVars, pool>>

(* The except branch: complete_job with status failed; if this call raises
   as well, Worker.run logs the error and sleeps *)
MarkFailed(w) ==
    /\ wk[w].state = "excepting"
    /\ \/ /\ CallComplete(w, "failed")
          /\ wk' = [wk EXCEPT ![w] = IdleWorker]
       \/ /\ UNCHANGED <<jobs, ret>>
          /\ wk' = [wk EXCEPT ![w] = [state |-> "sleeping", job |-> NoJob]]
    /\ UNCHANGED <<now, storeVars, pool>>

ProcessNext ==
    \/ Enqueue
    \/ \E w \in Workers : \/ WorkerClaim(w)
                           \/ WorkerWake(w)
                           \/ HandlerReturns(w)
                           \/ HandlerRaised(w)
                           \/ MarkCompleted(w)
                           \/ MarkCompletedRaises(w)
                           \/ MarkFailed(w)
    \/ Tick

ProcessSpec == Init /\ [][ProcessNext]_vars

(* Worker w holds a job whose handler returned a result *)
HoldsResult(w) == wk[w].state \in {"returned", "excepting"}

(* C35: a job whose handler returned a result is not recorded as failed and
   not sent back for a retry by its worker, whether or not the call that
   marks it completed raises *)
C35_ResultNeverFailed ==
    [][\A w \in Workers :
         HoldsResult(w) =>
            LET i == wk[w].job.id IN
            ~(jobs[i].status = "running" /\ jobs'[i].status \in {"pending", "failed"})]_vars

\* ---------------------------------------------------------------------------
\* C36: in every reachable state every job has 0 <= attempts <= max_attempts,
\* also after a stale running job was returned to pending with its attempts
\* preserved and was claimed again.
C36_AttemptsBounded ==
    \A i \in DOMAIN jobs :
        0 <= jobs[i].attempts /\ jobs[i].attempts <= jobs[i].max_attempts

\* A claim of job i that takes its attempts past max_attempts.
ExceedsMax(i) ==
    /\ jobs[i].attempts <= jobs[i].max_attempts
    /\ jobs'[i].attempts > jobs'[i].max_attempts

\* The row of job i was returned to pending by the reclaim of a stale claim:
\* only its status changed.
Reclaimed(i) == jobs'[i] = [jobs[i] EXCEPT !.status = "pending"]

\* C36 (amended): attempts are never negative and change only by one, in a
\* claim; a running job on its last attempt returns to pending only through
\* the reclaim of a stale claim, never through Complete; and attempts first
\* pass max_attempts only in the claim of such a reclaimed job.
C36_AttemptsBoundedUntilReclaimed ==
    [][\A i \in DOMAIN jobs :
         /\ 0 <= jobs[i].attempts
         /\ jobs'[i].attempts # jobs[i].attempts =>
               /\ jobs'[i].attempts = jobs[i].attempts + 1
               /\ jobs[i].status = "pending"
               /\ jobs'[i].status = "running"
         /\ ( /\ jobs[i].status = "running"
              /\ jobs'[i].status = "pending"
              /\ jobs[i].attempts >= jobs[i].max_attempts ) => Reclaimed(i)
         /\ ExceedsMax(i) =>
               /\ jobs[i].attempts = jobs[i].max_attempts
               /\ jobs[i].status = "pending"
               /\ jobs[i].claimed_by # NULL]_vars

\* A job runs an attempt beyond max_attempts after its last attempt was
\* reclaimed.
C36_Witness ==
    \E i \in DOMAIN jobs :
        /\ jobs[i].status = "running"
        /\ jobs[i].attempts = jobs[i].max_attempts + 1

\* ---------------------------------------------------------------------------
\* C37: termination of every job under fair scheduling

\* The worker that stays alive.
LiveWorker == 1

\* A timestamp one clock reading further in the past; readings older than the
\* window are kept at its lower end.
Back(t) == IF t = NULL \/ t = 0 THEN t ELSE t - 1

\* The rows seen one clock reading later. No operation of the store tells
\* apart two timestamps older than the window, or two values of attempts above
\* max_attempts.
Slide(js) ==
    [i \in DOMAIN js |->
       [js[i] EXCEPT !.created_at = Back(@), !.claimed_at = Back(@),
                     !.retry_after = Back(@), !.finished_at = Back(@),
                     !.attempts = Min(@, js[i].max_attempts + 1)]]

\* The clock advances without an end: at the end of the window the rows move
\* back instead of the clock moving on.
PassTime ==
    /\ IF now + StaleAfter < MaxTime
       THEN now' = now + 1 /\ UNCHANGED jobs
       ELSE now' = now /\ jobs' = Slide(jobs)
    /\ UNCHANGED <<wk, ret, storeVars, pool>>

\* MaxJobs jobs have been enqueued, the first with the most attempts and the
\* others with one.
TermInit ==
    /\ now = 0
    /\ jobs = [i \in 1 .. MaxJobs |->
                 create_job(PARSE_PAPER, NULL, NULL, NULL,
                            IF i = 1 THEN MaxAttemptsBound ELSE 1)]
    /\ wk = [w \in Workers |-> IdleWorker]
    /\ ret = "none"
    /\ library_papers = [l \in Libraries, p \in Papers |-> NULL]
    /\ extracts = {}
    /\ co = [c \in Callers |-> NoCall]
    /\ extract_links = {}
    /\ run = [w \in Workers |-> NoRun]
    /\ log = {}
    /\ pool = "serving"

TermNext ==
    \/ \E w \in Workers : WorkerClaim(w)
    \/ \E w \in Workers : WorkerWake(w)
    \/ \E w \in Workers : WorkerFinish(w)
    \/ \E w \in Workers \ {LiveWorker} : WorkerCrash(w)
    \/ \E i \in 1 .. MaxJobs : Sweep(i)
    \/ PassTime

\* Fair scheduling: the clock advances, the reclaimer runs, every worker that
\* is alive goes on with its loop and every handler ends.
TermSpec ==
    /\ TermInit /\ [][TermNext]_vars
    /\ WF_vars(PassTime)
    /\ \A i \in 1 .. MaxJobs : WF_vars(Sweep(i))
    /\ \A w \in Workers :
         WF_vars(WorkerClaim(w)) /\ WF_vars(WorkerWake(w)) /\ WF_vars(WorkerFinish(w))

Enqueued(i) == i \in DOMAIN jobs

Ended(i) == i \in DOMAIN jobs /\ jobs[i].status \in Terminal

\* C37: with a live worker, fair scheduling and handlers that end, every
\* enqueued job eventually reaches completed or failed.
C37_EveryJobTerminates ==
    \A i \in 1 .. MaxJobs : Enqueued(i) ~> Ended(i)

\* A worker that is alive is still handling job k while the row is no longer
\* its own: the claim was reclaimed before the handler ended.
ReclaimedAlive(k) ==
    /\ k \in DOMAIN jobs
    /\ \E w \in Workers :
         /\ wk[w].state = "handling"
         /\ wk[w].job.id = k
         /\ ~(jobs[k].status = "running" /\ jobs[k].claimed_by = w)

\* C37 (amended): every enqueued job eventually reaches completed or failed,
\* unless claims of live workers are reclaimed again and again before their
\* handlers end.
C37_TerminatesUnlessReclaimedAlive ==
    \/ \E k \in 1 .. MaxJobs : []<>ReclaimedAlive(k)
    \/ \A i \in 1 .. MaxJobs : Enqueued(i) ~> Ended(i)

\* A job whose worker died was reclaimed, run again and brought to its end.
C37_Witness ==
    /\ \E w \in Workers : wk[w].state = "dead"
    /\ \E i \in DOMAIN jobs :
         /\ Ended(i)
         /\ jobs[i].attempts > 1
         /\ jobs[i].claimed_by = LiveWorker

\* ---------------------------------------------------------------------------
\* C38: the coordination check of the attempt that completes an extraction

\* POST /api/jobs stores the payload as the client sent it. The client of
\* these extraction jobs put a job_id of its own choice into it, one per job.
PostedJobId(job) == job.id

ExtractWriteKeyed(w) == ExtractWriteAs(w, PostedJobId(wk[w].job))

ExtractRaiseKeyed(w) == ExtractRaiseAs(w, PostedJobId(wk[w].job))

\* The papers are in the libraries.
KeyedInit ==
    /\ now = 0
    /\ jobs = << >>
    /\ wk = [w \in Workers |-> IdleWorker]
    /\ ret = "none"
    /\ library_papers = [l \in Libraries, p \in Papers |-> 0]
    /\ extracts = {}
    /\ co = [c \in Callers |-> NoCall]
    /\ extract_links = {}
    /\ run = [w \in Workers |-> NoRun]
    /\ log = {}
    /\ pool = "serving"

\* One paper is extracted. Check 1 of the coordination call of a worker finds
\* the worker's own job running, so the call inserts nothing.
KeyedNext ==
    \/ EnqueueExtract(1)
    \/ \E w \in Workers : \/ WorkerClaim(w)
                           \/ WorkerWake(w)
                           \/ ExtractWriteKeyed(w)
                           \/ ExtractRaiseKeyed(w)
                           \/ Check(w)
                           \/ ExtractReturn(w)
    \/ Tick

KeyedSpec == KeyedInit /\ [][KeyedNext]_vars

\* The libraries that contain paper p.
LibrariesWith(p) == { l \in Libraries : library_papers[l, p] # NULL }

\* The handler of worker w goes on to its coordination call, or returns.
HandlerGoesOn(w) ==
    /\ wk[w].state = "handling"
    /\ wk[w].job.kind = EXTRACT_ELEMENTS
    /\ wk'[w].state = "coord"

\* The coordination call of worker w begins with all libraries of the paper.
ChecksEveryLibrary(w) ==
    LET libs == LibrariesWith(wk[w].job.paper) IN
    IF libs = {} THEN co'[w].phase = "done"
    ELSE /\ co'[w].phase = "check"
         /\ {co'[w].lib} \cup co'[w].rest = libs

\* The coordination call of worker w checks a library and turns to one of the
\* libraries that are left; it is over when none is left.
ChecksOneByOne(w) ==
    (wk[w].state = "coord" /\ co[w].phase = "check" /\ co'[w] # co[w]) =>
       \/ co'[w].phase = "insert" /\ co'[w].lib = co[w].lib /\ co'[w].rest = co[w].rest
       \/ co'[w].phase = "check" /\ co'[w].lib \in co[w].rest
                                 /\ co'[w].rest = co[w].rest \ {co'[w].lib}
       \/ co'[w].phase = "done" /\ co[w].rest = {}

\* The job of worker w is completed only when its handler has gone on to the
\* coordination call and that call is over.
CompletesAfterCall(w) ==
    LET i == wk[w].job.id IN
    ( /\ wk[w].job.kind = EXTRACT_ELEMENTS
      /\ jobs[i].status = "running" /\ jobs[i].claimed_by = w
      /\ jobs'[i].status = "completed" ) =>
        wk[w].state = "coord" /\ co[w].phase = "done"

\* C38: every extract_elements job that is completed has, in the attempt that
\* completed it, run the coordination check for every library that contains
\* its paper, also when that attempt found the extracts of an earlier attempt
\* and skipped the extraction.
C38_CompletedRanCoordination ==
    [][\A w \in Workers :
         /\ HandlerGoesOn(w) => ChecksEveryLibrary(w)
         /\ ChecksOneByOne(w)
         /\ CompletesAfterCall(w)]_vars

\* ---------------------------------------------------------------------------
\* C39: the extracts of a job that was completed after a failed attempt

ExtractTypes == {"claim", "method", "observation"}

\* What the extractors find in a paper: all three types in paper 1, claims
\* only in the other papers.
Produced(p) == IF p = 1 THEN ExtractTypes ELSE {"claim"}

\* handle_extract_elements: the retry check finds extracts with the job_id of
\* the payload and the handler returns at once
ExtractSkip(w) ==
    /\ wk[w].state = "handling"
    /\ wk[w].job.kind = EXTRACT_ELEMENTS
    /\ AlreadyExtracted(extracts, PostedJobId(wk[w].job))
    /\ wk' = [wk EXCEPT ![w].state = "coord"]
    /\ co' = [co EXCEPT ![w] = [NoCall EXCEPT !.phase = "done"]]
    /\ UNCHANGED <<now, jobs, ret, library_papers, extracts, linkVars, pool>>

\* handle_extract_elements: one of its three extractions has run and its rows
\* are stored
ExtractStage(w, from, ty, to) ==
    /\ wk[w].state = from
    /\ wk[w].job.kind = EXTRACT_ELEMENTS
    /\ extracts' = extracts \cup
          StoredExtracts(wk[w].job, Produced(wk[w].job.paper) \cap {ty},
                         PostedJobId(wk[w].job), now)
    /\ wk' = [wk EXCEPT ![w].state = to]

\* claims extraction, after the retry check found nothing
ExtractClaims(w) ==
    /\ ~AlreadyExtracted(extracts, PostedJobId(wk[w].job))
    /\ ExtractStage(w, "handling", "claim", "methods")
    /\ UNCHANGED <<now, jobs, ret, library_papers, co, linkVars, pool>>

\* methods extraction
ExtractMethods(w) ==
    /\ ExtractStage(w, "methods", "method", "observations")
    /\ UNCHANGED <<now, jobs, ret, library_papers, co, linkVars, pool>>

\* observations extraction, skipped for a paper without methods; then
\* maybe_queue_link_library is called and reads the libraries of the paper
ExtractObservations(w) ==
    /\ IF "method" \in Produced(wk[w].job.paper)
       THEN ExtractStage(w, "observations", "observation", "coord")
       ELSE /\ wk[w].state = "observations"
            /\ wk' = [wk EXCEPT ![w].state = "coord"]
            /\ UNCHANGED extracts
    /\ LET libs == get_libraries_for_paper(library_papers, wk[w].job.paper) IN
       \E n \in (IF libs = {} THEN { [NoCall EXCEPT !.phase = "done"] }
                  ELSE { [phase |-> "check", lib |-> l, rest |-> libs \ {l},
                          cutoff |-> NULL] : l \in libs }) :
         co' = [co EXCEPT ![w] = n]
    /\ UNCHANGED <<now, jobs, ret, library_papers, linkVars, pool>>

\* an extractor, the embedding or a store call raises before the handler
\* returns: Worker._process_job marks the attempt failed
ExtractFails(w) ==
    /\ wk[w].state \in {"handling", "methods", "observations"}
    /\ wk[w].job.kind = EXTRACT_ELEMENTS
    /\ CallComplete(w, "failed")
    /\ wk' = [wk EXCEPT ![w] = IdleWorker]
    /\ UNCHANGED <<now, library_papers, extracts, co, linkVars, pool>>

\* One paper is extracted.
PartialNext ==
    \/ EnqueueExtract(1)
    \/ \E w \in Workers : \/ WorkerClaim(w)
                           \/ WorkerWake(w)
                           \/ ExtractSkip(w)
                           \/ ExtractClaims(w)
                           \/ ExtractMethods(w)
                           \/ ExtractObservations(w)
                           \/ ExtractFails(w)
                           \/ Check(w)
                           \/ ExtractReturn(w)
    \/ Tick

PartialSpec == KeyedInit /\ [][PartialNext]_vars

\* The rows that attempt a of job i stored.
AttemptRows(i, a) == { e \in extracts : e.id[1] = i /\ e.id[2] = a }

\* An earlier attempt of job i failed after it had stored the claims and
\* before it stored methods or observations.
FailedPartWay(i) ==
    \E a \in 1 .. jobs[i].attempts - 1 :
        /\ AttemptRows(i, a) # {}
        /\ \A e \in AttemptRows(i, a) : e.type = "claim"

\* C39: an extract_elements job that is completed after an earlier attempt
\* failed part-way has extracts of every type the extractors find in its
\* paper, not only of the types the failed attempt stored.
C39_CompletedHasAllTypes ==
    \A i \in DOMAIN jobs :
        ( /\ jobs[i].kind = EXTRACT_ELEMENTS
          /\ jobs[i].status = "completed"
          /\ FailedPartWay(i) ) =>
            \A ty \in Produced(jobs[i].paper) :
                \E e \in extracts : e.id[1] = i /\ e.type = ty

\* ---------------------------------------------------------------------------
\* C40: a rejected complete call

\* The columns a complete call may write.
Outcome(j) ==
    << j.status, j.claimed_by, j.attempts, j.result, j.error, j.retry_after,
       j.finished_at >>

\* C40: a complete call of a worker for a job that is not running or not its
\* own changes nothing: status, claimed_by, attempts, result, error,
\* retry_after and finished_at of the job are as before, and so are the other
\* jobs. A late call of a former owner does not overwrite what the current
\* owner wrote.
C40_RejectedCompleteChangesNothing ==
    [][\A w \in Workers :
         LET i == wk[w].job.id IN
         ( /\ CompleteStep(w)
           /\ ~(jobs[i].status = "running" /\ jobs[i].claimed_by = w) ) =>
             /\ Outcome(jobs'[i]) = Outcome(jobs[i])
             /\ jobs' = jobs]_vars

\* The only job was reclaimed from its first owner and completed by the
\* second; the last complete call, of the former owner, was rejected.
C40_Witness ==
    /\ ret = "false"
    /\ Len(jobs) = 1
    /\ jobs[1].status = "completed"
    /\ jobs[1].attempts = 2
    /\ \A w \in Workers : wk[w].state = "idle"

====
